---- MODULE Spec2Model ----
(***************************************************************************)
(* A model of sequelite: the schema migrator (src/src/model/migrator.rs)   *)
(* running against an SQLite database reached through                       *)
(* src/src/connection.rs, and the query / filter builders                   *)
(* (src/src/model/query.rs, update_query.rs, delete_query.rs).              *)
(***************************************************************************)
EXTENDS Integers, Sequences, FiniteSets, TLC

VARIABLES
    db,        \* the live database: tables in sqlite_master order
    declared,  \* Connection.latest_schema.tables: table name -> column list
    pc,        \* position of Migrator::migrate_models
    pass,      \* number of migrate() calls started
    tables,    \* migrator.rs:28, the snapshot of get_all_tables()
    ti,        \* index of the table of the loop at migrator.rs:30
    columns,   \* migrator.rs:33, the snapshot of get_all_columns(table)
    ci,        \* index of the column loops at migrator.rs:36 and :49
    todo,      \* declared tables the loop at migrator.rs:88 has not visited
    log,       \* statements executed by the current pass, in order
    db0,       \* the database when the current pass started
    live0,     \* the database when the first pass started
    registered, \* the models handed to register::<M>() that are on record, in call order
    qb,        \* the query builder under construction: <<>> or <<builder>>
    qchain,    \* the builder calls made so far, the constructor first
    qfilter,   \* the filter handed to the last filter(...) call: <<>> or <<f>>
    qfrag,     \* the fragment that filter's get_query returned: <<>> or <<q>>
    qraw,      \* the RawQuery handed to the engine: <<>> or <<raw>>
    qops,      \* the operands of the last & or |: <<>> or <<self, rhs>>
    qin,       \* the records handed to the last insert: a sequence of rows
    qpanic,    \* TRUE once a call of the program panicked
    qtable,    \* the rows of the table the statements are executed on
    rel,       \* the Relation<M> value the program holds
    rop,       \* the last call on the Relation, or on its table
    rout,      \* what that call returned: <<>> or <<value>>
    rqueried   \* TRUE when that call sent a statement to the engine

mvars == <<db, declared, pc, pass, tables, ti, columns, ci, todo, log, db0, live0, registered>>

qvars == <<qb, qchain, qfilter, qfrag, qraw>>

qrest == <<qops, qin, qpanic, qtable>>

rvars == <<rel, rop, rout, rqueried>>

vars == <<db, declared, pc, pass, tables, ti, columns, ci, todo, log, db0, live0, registered,
          qb, qchain, qfilter, qfrag, qraw, qops, qin, qpanic, qtable, rel, rop, rout, rqueried>>

\* ------------------------------------------------------------------ bounds

MaxRows == 1
MaxPasses == 2

\* ------------------------------------------------------- sequence helpers

Range(s) == {s[i] : i \in DOMAIN s}

Contains(s, x) == \E i \in DOMAIN s : s[i] = x

RECURSIVE RemoveAt(_, _)
RemoveAt(s, p) ==
    IF s = <<>> THEN <<>>
    ELSE IF p = 1 THEN Tail(s)
    ELSE <<Head(s)>> \o RemoveAt(Tail(s), p - 1)

\* the least of the indices found, 0 when there is none
FirstIndex(found) ==
    IF found = {} THEN 0
    ELSE CHOOSE i \in found : \A k \in found : i <= k

\* ---------------------------------------------------- sql_types.rs

SqliteType == {"Integer", "Real", "Text", "Blob", "DateTime"}

SqliteFlag == {"PrimaryKey", "NotNull", "Unique", "AutoIncrement"}

\* impl IntoSqlite for SqliteType
into_sqlite_type(ty) ==
    CASE ty = "Integer" -> "INTEGER"
      [] ty = "Text" -> "TEXT"
      [] ty = "Real" -> "REAL"
      [] ty = "Blob" -> "BLOB"
      [] ty = "DateTime" -> "DATETIME"

\* s.to_uppercase() for the type names a table of the model can carry
to_uppercase(s) ==
    CASE s = "text" -> "TEXT"
      [] s = "integer" -> "INTEGER"
      [] OTHER -> s

\* SqliteType::from_str: None for every name that is not one of the five
from_str(s) ==
    CASE to_uppercase(s) = "INTEGER" -> "Integer"
      [] to_uppercase(s) = "TEXT" -> "Text"
      [] to_uppercase(s) = "REAL" -> "Real"
      [] to_uppercase(s) = "BLOB" -> "Blob"
      [] to_uppercase(s) = "DATETIME" -> "DateTime"
      [] OTHER -> "None"

\* ---------------------------------------------------- column.rs

\* A column descriptor: name, ty, flags in declaration order, default present
Column(name, ty, flags, default) ==
    [name |-> name, ty |-> ty, flags |-> flags, default |-> default]

\* Column::has_flag
has_flag(col, flag) == Contains(col.flags, flag)

\* Column::same_flags: every flag of self is a flag of other
same_flags(self, other) ==
    \A i \in DOMAIN self.flags : has_flag(other, self.flags[i])

\* into_sqlite with the DEFAULT clause left out
into_sqlite_without_default(col) ==
    [name |-> col.name, type |-> into_sqlite_type(col.ty),
     flags |-> col.flags, default |-> FALSE]

\* impl IntoSqlite for Column: "<name> <TYPE> <FLAG>... [DEFAULT <expr>]".
\* The statement keeps the definition in parsed form: the column name, the
\* rendered type name, the flags in declaration order, whether DEFAULT is there.
into_sqlite(col) ==
    [name |-> col.name, type |-> into_sqlite_type(col.ty),
     flags |-> col.flags, default |-> col.default]

\* ---------------------------------------------------- the SQLite engine
\* What rusqlite's Connection::execute does with the statements the migrator
\* sends through Connection::execute_no_params.

Null == "NULL"

DefaultValue(name) == "DEFAULT:" \o name

CellValue(r, name) == "r" \o ToString(r) \o "." \o name

TableIndex(d, name) == FirstIndex({i \in DOMAIN d : d[i].name = name})

HasTable(d, name) == TableIndex(d, name) # 0

GetTable(d, name) == d[TableIndex(d, name)]

ColumnIndex(t, name) == FirstIndex({i \in DOMAIN t.cols : t.cols[i].name = name})

\* the stored column of a parsed column definition
LiveColumn(def) ==
    [name |-> def.name, type |-> def.type,
     notnull |-> Contains(def.flags, "NotNull"),
     pk |-> Contains(def.flags, "PrimaryKey"),
     unique |-> Contains(def.flags, "Unique"),
     dflt |-> def.default]

\* SQLite's grammar: AUTOINCREMENT only directly after PRIMARY KEY, on INTEGER
ValidColumnDef(def) ==
    \A i \in DOMAIN def.flags :
        def.flags[i] = "AutoIncrement" =>
            /\ i > 1
            /\ def.flags[i - 1] = "PrimaryKey"
            /\ def.type = "INTEGER"

ValidTableDef(defs) ==
    /\ defs # <<>>
    /\ \A i \in DOMAIN defs : ValidColumnDef(defs[i])
    /\ \A i, k \in DOMAIN defs : defs[i].name = defs[k].name => i = k
    /\ Cardinality({i \in DOMAIN defs : Contains(defs[i].flags, "PrimaryKey")}) <= 1

SequenceTable ==
    [name |-> "sqlite_sequence",
     cols |-> << [name |-> "name", type |-> "", notnull |-> FALSE, pk |-> FALSE,
                  unique |-> FALSE, dflt |-> FALSE],
                 [name |-> "seq", type |-> "", notnull |-> FALSE, pk |-> FALSE,
                  unique |-> FALSE, dflt |-> FALSE] >>,
     autoinc |-> FALSE, rows |-> <<>>]

Stmt(op, table, name, defs) ==
    [op |-> op, table |-> table, name |-> name, defs |-> defs]

\* does the engine accept the statement in database d
CanExec(d, s) ==
    CASE s.op = "DROP TABLE IF EXISTS" -> s.table # "sqlite_sequence"
      [] s.op = "CREATE TABLE" ->
            ~HasTable(d, s.table) /\ ValidTableDef(s.defs)
      [] s.op = "DROP COLUMN" ->
            /\ HasTable(d, s.table)
            /\ LET t == GetTable(d, s.table)
                   p == ColumnIndex(t, s.name)
               IN  /\ p # 0
                   /\ Len(t.cols) > 1
                   /\ ~t.cols[p].pk
                   /\ ~t.cols[p].unique
      [] s.op = "ADD COLUMN" ->
            /\ HasTable(d, s.table)
            /\ LET t == GetTable(d, s.table)
                   def == s.defs[1]
               IN  /\ ColumnIndex(t, def.name) = 0
                   /\ ValidColumnDef(def)
                   /\ ~Contains(def.flags, "PrimaryKey")
                   /\ ~Contains(def.flags, "Unique")
                   /\ Contains(def.flags, "NotNull") => def.default
      [] s.op = "INSERT SELECT" ->
            /\ HasTable(d, s.table)
            /\ HasTable(d, s.name)
            /\ LET to == GetTable(d, s.table)
                   from == GetTable(d, s.name)
               IN  /\ Len(to.cols) = Len(from.cols)
                   /\ \A r \in DOMAIN from.rows : \A p \in DOMAIN to.cols :
                          to.cols[p].notnull => from.rows[r][p] # Null
      [] s.op = "RENAME TO" ->
            HasTable(d, s.table) /\ ~HasTable(d, s.name)

\* the database after the engine executed the statement
Exec(d, s) ==
    CASE s.op = "DROP TABLE IF EXISTS" ->
            SelectSeq(d, LAMBDA t : t.name # s.table)
      [] s.op = "CREATE TABLE" ->
            LET auto == \E i \in DOMAIN s.defs : Contains(s.defs[i].flags, "AutoIncrement")
                new == [name |-> s.table,
                        cols |-> [i \in DOMAIN s.defs |-> LiveColumn(s.defs[i])],
                        autoinc |-> auto, rows |-> <<>>]
            IN  IF auto /\ ~HasTable(d, "sqlite_sequence")
                THEN d \o <<SequenceTable, new>>
                ELSE Append(d, new)
      [] s.op = "DROP COLUMN" ->
            LET i == TableIndex(d, s.table)
                p == ColumnIndex(d[i], s.name)
            IN  [d EXCEPT ![i].cols = RemoveAt(@, p),
                          ![i].rows = [r \in DOMAIN @ |-> RemoveAt(@[r], p)]]
      [] s.op = "ADD COLUMN" ->
            LET i == TableIndex(d, s.table)
                def == s.defs[1]
                v == IF def.default THEN DefaultValue(def.name) ELSE Null
            IN  [d EXCEPT ![i].cols = Append(@, LiveColumn(def)),
                          ![i].rows = [r \in DOMAIN @ |-> Append(@[r], v)]]
      [] s.op = "INSERT SELECT" ->
            LET i == TableIndex(d, s.table)
            IN  [d EXCEPT ![i].rows = @ \o GetTable(d, s.name).rows]
      [] s.op = "RENAME TO" ->
            LET i == TableIndex(d, s.table)
            IN  [d EXCEPT ![i].name = s.name]

\* ---------------------------------------------------- connection.rs

\* Connection::get_all_tables: the table names, sqlite_sequence left out
get_all_tables(d) ==
    LET kept == SelectSeq(d, LAMBDA t : t.name # "sqlite_sequence")
    IN  [i \in DOMAIN kept |-> kept[i].name]

\* the flags with AUTOINCREMENT reported for every column of a table whose
\* CREATE TABLE text holds the word, primary key or not
LiveFlagsOfAnyColumn(t, c) ==
    (IF c.notnull THEN <<"NotNull">> ELSE <<>>)
    \o (IF c.pk THEN <<"PrimaryKey">> ELSE <<>>)
    \o (IF t.autoinc THEN <<"AutoIncrement">> ELSE <<>>)

\* the flags Connection::get_all_columns gives a column of table t
LiveFlags(t, c) ==
    (IF c.notnull THEN <<"NotNull">> ELSE <<>>)
    \o (IF c.pk THEN <<"PrimaryKey">> ELSE <<>>)
    \o (IF t.autoinc /\ c.pk THEN <<"AutoIncrement">> ELSE <<>>)

\* Connection::get_all_columns reaches its end: every type name parses
\* (ty.unwrap() at connection.rs:200 panics otherwise)
get_all_columns_ok(d, table) ==
    HasTable(d, table) =>
        \A c \in Range(GetTable(d, table).cols) : from_str(c.type) # "None"

\* Connection::get_all_columns: PRAGMA table_info of a missing table is empty
get_all_columns(d, table) ==
    IF ~HasTable(d, table) THEN <<>>
    ELSE LET t == GetTable(d, table)
         IN  [i \in DOMAIN t.cols |->
                 Column(t.cols[i].name, from_str(t.cols[i].type),
                        LiveFlags(t, t.cols[i]), FALSE)]

\* ---------------------------------------------------- the inputs

\* The column constants sequelite_macro's model_derive produces
\* (sequelite_macro/src/lib.rs:52-69): the field named id carries PrimaryKey,
\* AutoIncrement, NotNull; any other field NotNull unless it is an Option.
IdColumn == Column("id", "Integer", <<"PrimaryKey", "AutoIncrement", "NotNull">>, FALSE)

DeclaredA ==
    { Column("a", "Text", <<>>, FALSE),
      Column("a", "Text", <<"NotNull">>, FALSE),
      Column("a", "Text", <<"NotNull">>, TRUE) }

DeclaredB ==
    { Column("b", "Integer", <<>>, FALSE),
      Column("b", "Integer", <<>>, TRUE) }

Optional(S) == {<<>>} \cup {<<x>> : x \in S}

\* the models a program can register: a table name and Model::columns()
Models ==
    ({ [table |-> "t", columns |-> i \o a \o b] :
        i \in Optional({IdColumn}), a \in Optional(DeclaredA), b \in Optional(DeclaredB) }
     \ { [table |-> "t", columns |-> <<>>] })
    \cup { [table |-> "u", columns |-> <<IdColumn>>] }

StoredColumn(name, type, notnull, pk) ==
    [name |-> name, type |-> type, notnull |-> notnull, pk |-> pk,
     unique |-> FALSE, dflt |-> FALSE]

\* the id column of a table some earlier program created: as model_derive
\* declares it, or a plain INTEGER PRIMARY KEY
StoredId ==
    { [col |-> StoredColumn("id", "INTEGER", TRUE, TRUE), autoinc |-> TRUE],
      [col |-> StoredColumn("id", "INTEGER", FALSE, TRUE), autoinc |-> FALSE] }

StoredA ==
    { StoredColumn("a", "TEXT", FALSE, FALSE),
      StoredColumn("a", "TEXT", TRUE, FALSE),
      StoredColumn("a", "INTEGER", FALSE, FALSE) }

StoredB ==
    { StoredColumn("b", "integer", FALSE, FALSE),
      StoredColumn("b", "TEXT", FALSE, FALSE),
      StoredColumn("b", "VARCHAR", FALSE, FALSE) }

\* row r of a table: a value in every column; in the sparse variant NULL in
\* every column that admits it
StoredRow(cols, r, sparse) ==
    [p \in DOMAIN cols |->
        IF sparse /\ ~cols[p].notnull /\ ~cols[p].pk THEN Null
        ELSE CellValue(r, cols[p].name)]

StoredRows(cols) ==
    { [r \in 1..n |-> StoredRow(cols, r, sparse /\ r = n)] :
        n \in 0..MaxRows, sparse \in BOOLEAN }

StoredIdChoice ==
    {[c |-> <<>>, auto |-> FALSE]} \cup {[c |-> <<x.col>>, auto |-> x.autoinc] : x \in StoredId}

\* the tables named t a database file can hold when the program opens it
StoredTables ==
    { [name |-> "t", cols |-> i.c \o a \o b, autoinc |-> i.auto, rows |-> <<>>] :
        i \in StoredIdChoice, a \in Optional(StoredA), b \in Optional(StoredB) }
    \ { [name |-> "t", cols |-> <<>>, autoinc |-> FALSE, rows |-> <<>>] }

WithRows(t) == { [t EXCEPT !.rows = rows] : rows \in StoredRows(t.cols) }

StoredU ==
    [name |-> "u", cols |-> <<StoredColumn("id", "INTEGER", TRUE, TRUE)>>,
     autoinc |-> TRUE, rows |-> <<>>]

\* what an interrupted earlier rebuild of t leaves behind
StoredTemp ==
    [name |-> "temp_t_new", cols |-> <<StoredColumn("a", "TEXT", FALSE, FALSE)>>,
     autoinc |-> FALSE, rows |-> <<>>]

\* sqlite_sequence exists as soon as one table was created with AUTOINCREMENT
WithSequence(d) ==
    IF \E i \in DOMAIN d : d[i].autoinc THEN <<SequenceTable>> \o d ELSE d

StoredT == {<<>>} \cup {<<x>> : x \in UNION {WithRows(y) : y \in StoredTables}}

\* the databases the program can open: new_memory() gives the empty one
StoredDbs ==
    { WithSequence(t \o u \o temp) :
        t \in StoredT, u \in Optional({StoredU}), temp \in Optional({StoredTemp}) }
    \cup { WithSequence(temp \o t \o u) :
        t \in StoredT, u \in Optional({StoredU}), temp \in Optional({StoredTemp}) }

\* ---------------------------------------------------- migrator.rs

\* DbSchema::add_table: tables.insert(M::table_name(), M::columns())
add_table_keeping_first(schema, m) == schema @@ (m.table :> m.columns)

add_table(schema, m) == (m.table :> m.columns) @@ schema

\* the test of the drop loop comparing types where it should compare names
NotInLatestByType(table, column) ==
    ~\E i \in DOMAIN declared[table] : declared[table][i].ty = column.ty

\* migrator.rs:37: the live column is not in the latest schema
NotInLatest(table, column) ==
    ~\E i \in DOMAIN declared[table] : declared[table][i].name = column.name

\* migrator.rs:51: the latest column is not among the live columns
NotInColumns(cols, latest_column) ==
    ~\E i \in DOMAIN cols : cols[i].name = latest_column.name

\* the test of the compare loop without the comparison of the types
NeedsRebuildByFlags(column, latest_column) ==
    ~same_flags(column, latest_column)

\* migrator.rs:69: the test that sends a table to replace_table_full
NeedsRebuild(column, latest_column) ==
    column.ty # latest_column.ty \/ ~same_flags(column, latest_column)

\* the test of the create loop inverted
MissingTablesInverted(schema, tabs) == {n \in DOMAIN schema : Contains(tabs, n)}

\* migrator.rs:88-89: the declared tables the snapshot does not hold
MissingTables(schema, tabs) == {n \in DOMAIN schema : ~Contains(tabs, n)}

\* replace_table_full: format!("temp_{}_new", table)
TempName(table) == "temp_" \o table \o "_new"

\* the column definitions of CREATE TABLE, migrator.rs:91-96 and :108-113
TableDef(cols) == [i \in DOMAIN cols |-> into_sqlite(cols[i])]

\* where migrate_models goes for the table at index i of the snapshot
TableStep(tabs, i, missing) ==
    IF i > Len(tabs) THEN (IF missing = {} THEN "done" ELSE "create_table")
    ELSE IF tabs[i] \in DOMAIN declared THEN "get_all_columns"
    ELSE "drop_table"

\* the column loops in the other order: the columns to add first, then the
\* columns to drop
ColumnStepAddsFirst(table, cols, loop, from) ==
    LET add == IF loop = "add" \/ from = 1
               THEN {i \in from..Len(declared[table]) : NotInColumns(cols, declared[table][i])}
               ELSE {}
        first == IF loop = "drop" /\ from > 1 THEN from ELSE 1
        drop == {i \in first..Len(cols) : NotInLatest(table, cols[i])}
        Min(S) == CHOOSE x \in S : \A y \in S : x <= y
    IN  IF add # {} THEN [pc |-> "add_column", ci |-> Min(add)]
        ELSE IF drop # {} THEN [pc |-> "drop_column", ci |-> Min(drop)]
        ELSE [pc |-> "compare", ci |-> 0]

\* the column loops without the drop loop
ColumnStepWithoutDrops(table, cols, loop, from) ==
    LET first == IF loop = "drop" THEN 1 ELSE from
        add == {i \in first..Len(declared[table]) : NotInColumns(cols, declared[table][i])}
        Min(S) == CHOOSE x \in S : \A y \in S : x <= y
    IN  IF add # {} THEN [pc |-> "add_column", ci |-> Min(add)]
        ELSE [pc |-> "compare", ci |-> 0]

\* the next statement of the two column loops (migrator.rs:36-61), from index
\* `from` of the loop `loop`; "compare" when both loops are over
ColumnStep(table, cols, loop, from) ==
    LET drop == IF loop = "drop"
                THEN {i \in from..Len(cols) : NotInLatest(table, cols[i])}
                ELSE {}
        first == IF loop = "drop" THEN 1 ELSE from
        add == {i \in first..Len(declared[table]) : NotInColumns(cols, declared[table][i])}
        Min(S) == CHOOSE x \in S : \A y \in S : x <= y
    IN  IF drop # {} THEN [pc |-> "drop_column", ci |-> Min(drop)]
        ELSE IF add # {} THEN [pc |-> "add_column", ci |-> Min(add)]
        ELSE [pc |-> "compare", ci |-> 0]

\* the outcome of the loop at migrator.rs:64-77 on the re-read columns
CompareStep(table, cols) ==
    LET latest == declared[table]
        Live(i) == CHOOSE c \in Range(cols) : c.name = latest[i].name
        stop == {i \in DOMAIN latest :
                    \/ NotInColumns(cols, latest[i])
                    \/ NeedsRebuild(Live(i), latest[i])}
        first == CHOOSE i \in stop : \A k \in stop : i <= k
    IN  IF stop = {} THEN "next"
        ELSE IF NotInColumns(cols, latest[first]) THEN "panic"
        ELSE "rebuild"

\* a failing statement undoing the statements before it
OnFailureRollback(d) == db0

\* a statement fails: execute_no_params(..).unwrap() panics and nothing of
\* the statement is applied
OnFailure(d) == d

Table == tables[ti]

\* Connection::register
register(m) ==
    /\ pc = "idle"
    /\ pass = 0
    /\ declared' = add_table(declared, m)
    /\ UNCHANGED <<qvars, qrest, rvars, registered>>
    /\ UNCHANGED <<db, pc, pass, tables, ti, columns, ci, todo, log, db0, live0>>

\* Connection::migrate -> Migrator::migrate -> migrate_models
migrate ==
    /\ pc \in {"idle", "done"}
    /\ pass < MaxPasses
    /\ pc' = "get_all_tables"
    /\ pass' = pass + 1
    /\ log' = <<>>
    /\ db0' = db
    /\ live0' = IF pass = 0 THEN db ELSE live0
    /\ tables' = <<>>
    /\ ti' = 0
    /\ columns' = <<>>
    /\ ci' = 0
    /\ todo' = {}
    /\ UNCHANGED <<qvars, qrest, rvars, registered>>
    /\ UNCHANGED <<db, declared>>

\* migrator.rs:28
GetAllTables ==
    /\ pc = "get_all_tables"
    /\ tables' = get_all_tables(db)
    /\ todo' = MissingTables(declared, tables')
    /\ ti' = 1
    /\ pc' = TableStep(tables', 1, todo')
    /\ UNCHANGED <<qvars, qrest, rvars, registered>>
    /\ UNCHANGED <<db, declared, pass, columns, ci, log, db0, live0>>

\* migrator.rs:33
GetAllColumns ==
    /\ pc = "get_all_columns"
    /\ IF get_all_columns_ok(db, Table)
       THEN /\ columns' = get_all_columns(db, Table)
            /\ pc' = ColumnStep(Table, columns', "drop", 1).pc
            /\ ci' = ColumnStep(Table, columns', "drop", 1).ci
       ELSE /\ pc' = "failed"
            /\ UNCHANGED <<columns, ci>>
    /\ UNCHANGED <<qvars, qrest, rvars, registered>>
    /\ UNCHANGED <<db, declared, pass, tables, ti, todo, log, db0, live0>>

\* execute_no_params(sql).unwrap() of a statement the engine accepts
Execute(s) ==
    /\ CanExec(db, s)
    /\ db' = Exec(db, s)
    /\ log' = Append(log, s)

\* migrator.rs:40-43
DropColumn ==
    /\ pc = "drop_column"
    /\ Execute(Stmt("DROP COLUMN", Table, columns[ci].name, <<>>))
    /\ pc' = ColumnStep(Table, columns, "drop", ci + 1).pc
    /\ ci' = ColumnStep(Table, columns, "drop", ci + 1).ci
    /\ UNCHANGED <<qvars, qrest, rvars, registered>>
    /\ UNCHANGED <<declared, pass, tables, ti, columns, todo, db0, live0>>

\* migrator.rs:54-57
AddColumn ==
    /\ pc = "add_column"
    /\ Execute(Stmt("ADD COLUMN", Table, "", <<into_sqlite(declared[Table][ci])>>))
    /\ pc' = ColumnStep(Table, columns, "add", ci + 1).pc
    /\ ci' = ColumnStep(Table, columns, "add", ci + 1).ci
    /\ UNCHANGED <<qvars, qrest, rvars, registered>>
    /\ UNCHANGED <<declared, pass, tables, ti, columns, todo, db0, live0>>

\* migrator.rs:62-77
Compare ==
    /\ pc = "compare"
    /\ IF get_all_columns_ok(db, Table)
       THEN LET step == CompareStep(Table, get_all_columns(db, Table))
            IN  /\ pc' = CASE step = "next" -> TableStep(tables, ti + 1, todo)
                           [] step = "panic" -> "failed"
                           [] step = "rebuild" -> "rebuild_create"
                /\ ti' = IF step = "next" THEN ti + 1 ELSE ti
       ELSE /\ pc' = "failed"
            /\ ti' = ti
    /\ UNCHANGED <<qvars, qrest, rvars, registered>>
    /\ UNCHANGED <<db, declared, pass, tables, columns, ci, todo, log, db0, live0>>

\* replace_table_full, migrator.rs:108-114
RebuildCreate ==
    /\ pc = "rebuild_create"
    /\ Execute(Stmt("CREATE TABLE", TempName(Table), "", TableDef(declared[Table])))
    /\ pc' = "rebuild_copy"
    /\ UNCHANGED <<qvars, qrest, rvars, registered>>
    /\ UNCHANGED <<declared, pass, tables, ti, columns, ci, todo, db0, live0>>

\* replace_table_full, migrator.rs:117-120
RebuildCopy ==
    /\ pc = "rebuild_copy"
    /\ Execute(Stmt("INSERT SELECT", TempName(Table), Table, <<>>))
    /\ pc' = "rebuild_drop"
    /\ UNCHANGED <<qvars, qrest, rvars, registered>>
    /\ UNCHANGED <<declared, pass, tables, ti, columns, ci, todo, db0, live0>>

\* replace_table_full, migrator.rs:123
RebuildDrop ==
    /\ pc = "rebuild_drop"
    /\ Execute(Stmt("DROP TABLE IF EXISTS", Table, "", <<>>))
    /\ pc' = "rebuild_rename"
    /\ UNCHANGED <<qvars, qrest, rvars, registered>>
    /\ UNCHANGED <<declared, pass, tables, ti, columns, ci, todo, db0, live0>>

\* replace_table_full, migrator.rs:126-129, then the break at migrator.rs:75
RebuildRename ==
    /\ pc = "rebuild_rename"
    /\ Execute(Stmt("RENAME TO", TempName(Table), Table, <<>>))
    /\ pc' = TableStep(tables, ti + 1, todo)
    /\ ti' = ti + 1
    /\ UNCHANGED <<qvars, qrest, rvars, registered>>
    /\ UNCHANGED <<declared, pass, tables, columns, ci, todo, db0, live0>>

\* migrator.rs:81
DropTable ==
    /\ pc = "drop_table"
    /\ Execute(Stmt("DROP TABLE IF EXISTS", Table, "", <<>>))
    /\ pc' = TableStep(tables, ti + 1, todo)
    /\ ti' = ti + 1
    /\ UNCHANGED <<qvars, qrest, rvars, registered>>
    /\ UNCHANGED <<declared, pass, tables, columns, ci, todo, db0, live0>>

\* migrator.rs:88-103; a HashMap is iterated in no particular order
CreateTable ==
    /\ pc = "create_table"
    /\ \E t \in todo :
        /\ Execute(Stmt("CREATE TABLE", t, "", TableDef(declared[t])))
        /\ todo' = todo \ {t}
        /\ pc' = IF todo' = {} THEN "done" ELSE "create_table"
    /\ UNCHANGED <<qvars, qrest, rvars, registered>>
    /\ UNCHANGED <<declared, pass, tables, ti, columns, ci, db0, live0>>

Issuing ==
    {"get_all_tables", "get_all_columns", "drop_column", "add_column", "compare",
     "rebuild_create", "rebuild_copy", "rebuild_drop", "rebuild_rename",
     "drop_table", "create_table"}

\* the statement migrate_models is about to issue fails: unwrap() panics
FailStmt ==
    /\ pc \in Issuing
    /\ pc' = "failed"
    /\ db' = OnFailure(db)
    /\ UNCHANGED <<qvars, qrest, rvars, registered>>
    /\ UNCHANGED <<declared, pass, tables, ti, columns, ci, todo, log, db0, live0>>

Init ==
    /\ db \in StoredDbs
    /\ declared = <<>>
    /\ pc = "idle"
    /\ pass = 0
    /\ tables = <<>>
    /\ ti = 0
    /\ columns = <<>>
    /\ ci = 0
    /\ todo = {}
    /\ log = <<>>
    /\ db0 = db
    /\ live0 = db
    /\ registered = <<>>
    /\ qb = <<>>
    /\ qchain = <<>>
    /\ qfilter = <<>>
    /\ qfrag = <<>>
    /\ qraw = <<>>
    /\ qops = <<>>
    /\ qin = <<>>
    /\ qpanic = FALSE
    /\ qtable = <<>>
    /\ rel = [related_key |-> <<>>, related |-> <<>>]
    /\ rop = "default"
    /\ rout = <<>>
    /\ rqueried = FALSE

Next ==
    \/ \E m \in Models : register(m)
    \/ migrate
    \/ GetAllTables
    \/ GetAllColumns
    \/ DropColumn
    \/ AddColumn
    \/ Compare
    \/ RebuildCreate
    \/ RebuildCopy
    \/ RebuildDrop
    \/ RebuildRename
    \/ DropTable
    \/ CreateTable
    \/ FailStmt

Spec == Init /\ [][Next]_vars

\* ---------------------------------------------------- the schema registry

\* register::<M>() calls kept on record
MaxRegistrations == 2

\* Connection::register, the call put on record
RegisterCall(m) ==
    /\ pc = "idle"
    /\ pass = 0
    /\ Len(registered) < MaxRegistrations
    /\ declared' = add_table(declared, m)
    /\ registered' = Append(registered, m)
    /\ UNCHANGED <<qvars, qrest, rvars>>
    /\ UNCHANGED <<db, pc, pass, tables, ti, columns, ci, todo, log, db0, live0>>

\* the databases the registry is followed on: the empty one, and those that
\* hold only a table t without rows, with the id column model_derive declares
\* and one more column
RegistryDbs ==
    { d \in StoredDbs :
        \/ d = <<>>
        \/ /\ Len(d) = 2
           /\ d[1] = SequenceTable
           /\ d[2].name = "t"
           /\ Len(d[2].cols) = 2
           /\ d[2].rows = <<>> }

InitS == Init /\ db \in RegistryDbs

NextS ==
    \/ \E m \in Models : RegisterCall(m)
    \/ migrate
    \/ GetAllTables
    \/ GetAllColumns
    \/ DropColumn
    \/ AddColumn
    \/ Compare
    \/ RebuildCreate
    \/ RebuildCopy
    \/ RebuildDrop
    \/ RebuildRename
    \/ DropTable
    \/ CreateTable
    \/ FailStmt

SpecS == InitS /\ [][NextS]_vars

\* ---------------------------------------------------- SQL text and parameters
\* A statement text is kept as a sequence of chunks. The placeholder "?" and
\* the "*" of the projection are always chunks of their own. Beside its
\* characters (s) a chunk records the value its placeholder was written for
\* (v, 0 when it is no placeholder) and the index in the chain of the builder
\* call that wrote it (call, 0 until the call returns). A parameter records
\* its value and the call that supplied it. The engine sees the characters
\* and the values only.

MaxCalls == 2

\* the builder calls after update(): one more, so that a set(...) call stands
\* between two other calls and another call between two set(...) calls
MaxUpdateCalls == 3

Values == {1, 2}

\* a literal piece of text; the empty string is no text
Lit(s) == IF s = "" THEN <<>> ELSE <<[s |-> s, v |-> 0, call |-> 0]>>

Placeholder(v) == <<[s |-> "?", v |-> v, call |-> 0]>>

Star == <<[s |-> "*", v |-> 0, call |-> 0]>>

Param(v) == [v |-> v, call |-> 0]

\* RawQuery::new
RawQuery(sql, params) == [sql |-> sql, params |-> params]

\* the parts of s that still carry call 0 get call n
Tag(s, n) == [i \in DOMAIN s |-> IF s[i].call = 0 THEN [s[i] EXCEPT !.call = n] ELSE s[i]]

\* String + String on texts in canonical form: a sequence of strings in which
\* "?" and "*" stand alone and no two other strings are neighbours
Concat(x, y) ==
    IF x = <<>> THEN y
    ELSE IF y = <<>> THEN x
    ELSE IF x[Len(x)] \in {"?", "*"} \/ Head(y) \in {"?", "*"} THEN x \o y
    ELSE SubSeq(x, 1, Len(x) - 1) \o <<x[Len(x)] \o Head(y)>> \o Tail(y)

\* the characters of a text, in canonical form: what the engine is handed
RECURSIVE Sql(_)
Sql(text) ==
    IF text = <<>> THEN <<>>
    ELSE IF Len(text) = 1 THEN <<text[1].s>>
    ELSE LET half == Len(text) \div 2
         IN  Concat(Sql(SubSeq(text, 1, half)), Sql(SubSeq(text, half + 1, Len(text))))

\* the values of a parameter list: what the engine is handed
ParamValues(params) == [i \in DOMAIN params |-> params[i].v]

\* columns.join(", ")
RECURSIVE Join(_, _)
Join(names, sep) ==
    IF names = <<>> THEN ""
    ELSE IF Len(names) = 1 THEN names[1]
    ELSE names[1] \o sep \o Join(Tail(names), sep)

\* ---------------------------------------------------- query.rs: filters

\* a column constant of the model: Column.table_name and Column::name()
QueryColumn(table_name, name) == [table_name |-> table_name, name |-> name]

\* impl_column_filter!(eq, "=")
eq(self, value) ==
    [kind |-> "ColumnQueryFilter", column |-> self.table_name \o "." \o self.name,
     op |-> "=", value |-> value]

\* ColumnQueryFilterImpl::is_null
is_null(self) ==
    [kind |-> "ColumnQueryFilterUnary", column |-> self.table_name \o "." \o self.name,
     op |-> "IS NULL"]

\* impl ColumnInQuery for Vec<T>: "(?, ?, ...)"
RECURSIVE Vec_to_query(_)
Vec_to_query(values) ==
    IF values = <<>> THEN RawQuery(Lit("(") \o Lit(")"), <<>>)
    ELSE LET n == Len(values)
             front == Vec_to_query(SubSeq(values, 1, n - 1))
             open == SubSeq(front.sql, 1, Len(front.sql) - 1)
         IN  RawQuery(open \o (IF n > 1 THEN Lit(", ") ELSE <<>>)
                           \o Placeholder(values[n]) \o Lit(")"),
                      Append(front.params, Param(values[n])))

\* ColumnQueryFilterImpl::in_ on what values.to_query() returned
in_(self, q) ==
    [kind |-> "InQueryFilter",
     sql |-> RawQuery(Lit(self.table_name \o "." \o self.name \o " IN ") \o q.sql, q.params)]

\* not_in without the NOT
not_in_as_in(self, q) ==
    [kind |-> "InQueryFilter",
     sql |-> RawQuery(Lit(self.table_name \o "." \o self.name \o " IN ") \o q.sql, q.params)]

\* ColumnQueryFilterImpl::not_in on what values.to_query() returned
not_in(self, q) ==
    [kind |-> "InQueryFilter",
     sql |-> RawQuery(Lit(self.table_name \o "." \o self.name \o " NOT IN ") \o q.sql,
                      q.params)]

\* ModelQueryFilterExt::and
and(filter0, filter1) == [kind |-> "And", filter0 |-> filter0, filter1 |-> filter1]

\* ModelQueryFilterExt::or
or(filter0, filter1) == [kind |-> "Or", filter0 |-> filter0, filter1 |-> filter1]

\* the filter types impl_op! gives the operators & and | to
HasOps(self) ==
    self.kind \in {"ColumnQueryFilter", "InQueryFilter", "ColumnQueryFilterUnary"}

\* & with the right operand as filter0
bitand_rhs_first(self, rhs) == [kind |-> "And", filter0 |-> rhs, filter1 |-> self]

\* impl_op!(BitAnd (bitand), .. => ModelQueryFilterAnd): self & rhs
bitand(self, rhs) == [kind |-> "And", filter0 |-> self, filter1 |-> rhs]

\* impl_op!(BitOr (bitor), .. => ModelQueryFilterOr): self | rhs
bitor(self, rhs) == [kind |-> "Or", filter0 |-> self, filter1 |-> rhs]

\* impl ModelQueryFilter for ColumnQueryFilter
ColumnQueryFilter_get_query(self) ==
    RawQuery(Lit(self.column) \o Lit(" ") \o Lit(self.op) \o Lit(" ")
                 \o Placeholder(self.value),
             <<Param(self.value)>>)

\* impl ModelQueryFilter for ColumnQueryFilterUnary
ColumnQueryFilterUnary_get_query(self) ==
    RawQuery(Lit(self.column) \o Lit(" ") \o Lit(self.op), <<>>)

\* AND with the parameters of the right operand first
ModelQueryFilterAnd_get_query_right_first(query, query1) ==
    RawQuery(query.sql \o Lit(" AND ") \o query1.sql, query1.params \o query.params)

\* impl ModelQueryFilter for ModelQueryFilterAnd, on the operands' fragments
ModelQueryFilterAnd_get_query(query, query1) ==
    RawQuery(query.sql \o Lit(" AND ") \o query1.sql, query.params \o query1.params)

\* OR with each operand in parentheses
ModelQueryFilterOr_get_query_parenthesised(query, query1) ==
    RawQuery(Lit("(") \o query.sql \o Lit(")") \o Lit(" OR ")
                 \o Lit("(") \o query1.sql \o Lit(")"),
             query.params \o query1.params)

\* impl ModelQueryFilter for ModelQueryFilterOr, on the operands' fragments
ModelQueryFilterOr_get_query(query, query1) ==
    RawQuery(query.sql \o Lit(" OR ") \o query1.sql, query.params \o query1.params)

\* ModelQueryFilter::get_query
RECURSIVE get_query(_)
get_query(filter) ==
    CASE filter.kind = "ColumnQueryFilter" -> ColumnQueryFilter_get_query(filter)
      [] filter.kind = "ColumnQueryFilterUnary" -> ColumnQueryFilterUnary_get_query(filter)
      [] filter.kind = "InQueryFilter" -> filter.sql
      [] filter.kind = "And" ->
            ModelQueryFilterAnd_get_query(get_query(filter.filter0), get_query(filter.filter1))
      [] filter.kind = "Or" ->
            ModelQueryFilterOr_get_query(get_query(filter.filter0), get_query(filter.filter1))

\* ---------------------------------------------------- query.rs: ModelQuery

\* the fields of ModelQuery; columns and values are those of ModelUpdateQuery,
\* which the one builder record of the model carries for all kinds
Builder(kind, table_name, query, params) ==
    [kind |-> kind, table_name |-> table_name, query |-> query, params |-> params,
     joins |-> <<>>, columns |-> <<>>, values |-> <<>>]

\* ModelQuery::select
ModelQuery_select(table_name) ==
    Builder("select", table_name, Lit("SELECT ") \o Star \o Lit(" FROM " \o table_name), <<>>)

\* ModelQuery::count
ModelQuery_count(table_name) ==
    Builder("count", table_name,
            Lit("SELECT COUNT(") \o Star \o Lit(") FROM " \o table_name), <<>>)

\* combine with the new parameters put before the old ones
ModelQuery_combine_params_first(self, query, params) ==
    [self EXCEPT !.query = @ \o Lit(" ") \o query, !.params = params \o @]

\* ModelQuery::combine
ModelQuery_combine(self, query, params) ==
    [self EXCEPT !.query = @ \o Lit(" ") \o query, !.params = @ \o params]

\* ModelQuery::filter
ModelQuery_filter(self, filter) ==
    LET filter_query == get_query(filter)
    IN  ModelQuery_combine(self, Lit("WHERE ") \o filter_query.sql, filter_query.params)

\* ModelQuery::with_id
ModelQuery_with_id(self, id) ==
    ModelQuery_combine(
        self,
        Lit("WHERE " \o self.table_name \o ".id = ") \o Placeholder(id) \o Lit(" LIMIT 1"),
        <<Param(id)>>)

\* ModelQuery::limit
ModelQuery_limit(self, limit) ==
    ModelQuery_combine(self, Lit("LIMIT ") \o Placeholder(limit), <<Param(limit)>>)

\* ModelQuery::offset
ModelQuery_offset(self, offset) ==
    ModelQuery_combine(self, Lit("OFFSET ") \o Placeholder(offset), <<Param(offset)>>)

\* ColumnQueryFilterImpl::asc / desc: the column name without its table
ColumnQueryOrder(self, order) == [column |-> self.name, order |-> order]

\* impl IntoSqlite for ColumnQueryOrder
ColumnQueryOrder_into_sqlite(order) ==
    order.column \o " " \o (IF order.order = "Ascending" THEN "ASC" ELSE "DESC")

\* ModelQuery::order_by
ModelQuery_order_by(self, order) ==
    ModelQuery_combine(self, Lit("ORDER BY " \o ColumnQueryOrder_into_sqlite(order)), <<>>)

\* ModelQuery::columns: replacen('*', columns, 1). The column list takes the
\* place of the constructor's "*" and stays a part of the constructor's clause.
ModelQuery_columns(self, cols) ==
    LET p == FirstIndex({i \in DOMAIN self.query : self.query[i].s = "*"})
        names == [i \in DOMAIN cols |-> cols[i].name]
    IN  IF p = 0 THEN self
        ELSE [self EXCEPT !.query =
                 SubSeq(self.query, 1, p - 1)
                 \o <<[s |-> Join(names, ", "), v |-> 0, call |-> self.query[p].call]>>
                 \o SubSeq(self.query, p + 1, Len(self.query))]

\* impl Queryable for ModelQuery: get_query
ModelQuery_get_query(self) == RawQuery(self.query, self.params)

\* impl ColumnInQuery for ModelQuery: "(<sub-select>)"
ModelQuery_to_query(self) ==
    LET query == ModelQuery_get_query(self)
    IN  RawQuery(Lit("(") \o query.sql \o Lit(")"), query.params)

\* ---------------------------------------------------- delete_query.rs

\* ModelDeleteQuery::new
ModelDeleteQuery_new(table_name) ==
    Builder("delete", table_name, Lit("DELETE FROM " \o table_name), <<>>)

\* ModelDeleteQuery::combine
ModelDeleteQuery_combine(self, other) ==
    [self EXCEPT !.query = @ \o Lit(" ") \o other.sql, !.params = @ \o other.params]

\* ModelDeleteQuery::filter
ModelDeleteQuery_filter(self, filter) ==
    LET filter_query == get_query(filter)
    IN  ModelDeleteQuery_combine(
            self, RawQuery(Lit("WHERE ") \o filter_query.sql, filter_query.params))

\* ModelDeleteQuery::limit
ModelDeleteQuery_limit(self, limit) ==
    ModelDeleteQuery_combine(self, RawQuery(Lit("LIMIT ") \o Placeholder(limit), <<Param(limit)>>))

\* ModelDeleteQuery::offset
ModelDeleteQuery_offset(self, offset) ==
    ModelDeleteQuery_combine(
        self, RawQuery(Lit("OFFSET ") \o Placeholder(offset), <<Param(offset)>>))

\* ModelDeleteQuery::order_by
ModelDeleteQuery_order_by(self, order) ==
    ModelDeleteQuery_combine(
        self, RawQuery(Lit("ORDER BY " \o ColumnQueryOrder_into_sqlite(order)), <<>>))

\* impl Queryable for ModelDeleteQuery: get_query
ModelDeleteQuery_get_query(self) == RawQuery(self.query, self.params)

\* ---------------------------------------------------- update_query.rs

\* ModelUpdateQuery::new: RawQuery::new("", Vec::new()), no column, no value
ModelUpdateQuery_new(table_name) == Builder("update", table_name, Lit(""), <<>>)

\* ModelUpdateQuery::combine
ModelUpdateQuery_combine(self, other) ==
    [self EXCEPT !.query = @ \o Lit(" ") \o other.sql, !.params = @ \o other.params]

\* ModelUpdateQuery::filter
ModelUpdateQuery_filter(self, filter) ==
    LET filter_query == get_query(filter)
    IN  ModelUpdateQuery_combine(
            self, RawQuery(Lit("WHERE ") \o filter_query.sql, filter_query.params))

\* ModelUpdateQuery::limit
ModelUpdateQuery_limit(self, limit) ==
    ModelUpdateQuery_combine(self, RawQuery(Lit("LIMIT ") \o Placeholder(limit), <<Param(limit)>>))

\* ModelUpdateQuery::offset
ModelUpdateQuery_offset(self, offset) ==
    ModelUpdateQuery_combine(
        self, RawQuery(Lit("OFFSET ") \o Placeholder(offset), <<Param(offset)>>))

\* ModelUpdateQuery::order_by
ModelUpdateQuery_order_by(self, order) ==
    ModelUpdateQuery_combine(
        self, RawQuery(Lit("ORDER BY " \o ColumnQueryOrder_into_sqlite(order)), <<>>))

\* set putting the column and the value in front of the earlier ones
ModelUpdateQuery_set_in_front(self, column, value) ==
    [self EXCEPT !.columns = <<[name |-> column.name, v |-> value, call |-> 0]>> \o @,
                 !.values = <<Param(value)>> \o @]

\* ModelUpdateQuery::set: the column and the value are pushed, the query text
\* is left alone. The column remembers the value it was set to.
ModelUpdateQuery_set(self, column, value) ==
    [self EXCEPT !.columns = Append(@, [name |-> column.name, v |-> value, call |-> 0]),
                 !.values = Append(@, Param(value))]

\* update_query.rs:162-167: "<name>=?" per column, ", " after all but the last;
\* the text of a column is the text of the set(...) call that pushed it
RECURSIVE SetList(_, _)
SetList(cols, i) ==
    IF i > Len(cols) THEN <<>>
    ELSE Tag(Lit(cols[i].name \o "=") \o Placeholder(cols[i].v)
                 \o (IF i # Len(cols) THEN Lit(", ") ELSE <<>>),
             cols[i].call)
         \o SetList(cols, i + 1)

\* get_query with the parameters of the clauses before the values of SET
ModelUpdateQuery_get_query_clauses_first(self) ==
    RawQuery(Tag(Lit("UPDATE " \o self.table_name \o " SET "), 1)
                 \o SetList(self.columns, 1) \o self.query,
             self.params \o self.values)

\* impl Queryable for ModelUpdateQuery: get_query. "UPDATE <table> SET " stands
\* where the constructor's text stands in the other builders.
ModelUpdateQuery_get_query(self) ==
    RawQuery(Tag(Lit("UPDATE " \o self.table_name \o " SET "), 1)
                 \o SetList(self.columns, 1) \o self.query,
             self.values \o self.params)

\* ---------------------------------------------------- query.rs: insert

\* can_insert_null without the declared default
can_insert_null_without_default(col) ==
    ~has_flag(col, "NotNull") \/ has_flag(col, "PrimaryKey")

\* Column::can_insert_null
can_insert_null(col) ==
    ~has_flag(col, "NotNull") \/ has_flag(col, "PrimaryKey") \/ col.default

\* impl IntoInsertable for M: the columns whose value is Some, and the values
\* as the one row of the insert; a row gives each column of cols a value, 0
\* standing for None
into_insertable(cols, row) ==
    LET some == SelectSeq([i \in DOMAIN cols |-> i], LAMBDA i : row[i] # 0)
    IN  [columns |-> [k \in DOMAIN some |-> cols[some[k]].name],
         values |-> << [k \in DOMAIN some |-> Param(row[some[k]])] >>]

\* into_insertable panics on a None in a column that cannot take NULL
into_insertable_ok(cols, row) ==
    \A i \in DOMAIN cols : ~(~can_insert_null(cols[i]) /\ row[i] = 0)

\* impl IntoInsertable for &[I; N] and for &[I], the rows from i on: panic is
\* the panic of a row's into_insertable or of assert_eq!(columns, ..)
RECURSIVE Slice_into_insertable(_, _, _, _)
Slice_into_insertable(cols, rows, i, self) ==
    IF i > Len(rows) THEN self
    ELSE IF ~into_insertable_ok(cols, rows[i]) THEN [self EXCEPT !.panic = TRUE]
    ELSE LET insertable == into_insertable(cols, rows[i])
         IN  IF self.columns # <<>> /\ self.columns # insertable.columns
             THEN [self EXCEPT !.panic = TRUE]
             ELSE Slice_into_insertable(
                      cols, rows, i + 1,
                      [self EXCEPT !.columns = IF @ = <<>> THEN insertable.columns ELSE @,
                                   !.values = Append(@, insertable.values[1])])

\* String::pop on a text whose last piece is one character
Pop(sql) == SubSeq(sql, 1, Len(sql) - 1)

\* query.rs:768-771: push_str(column), push_str(", ")
RECURSIVE PushColumns(_, _)
PushColumns(sql, cols) ==
    IF cols = <<>> THEN sql
    ELSE PushColumns(sql \o Lit(Head(cols)) \o Lit(",") \o Lit(" "), Tail(cols))

\* query.rs:779-782: push_str("?, ") and params.push(value)
RECURSIVE PushValues(_, _)
PushValues(sql, values) ==
    IF values = <<>> THEN sql
    ELSE PushValues(sql \o Placeholder(Head(values).v) \o Lit(",") \o Lit(" "), Tail(values))

\* query.rs:777-787: '(' , the values, pop, pop, ')' and ',' for each row
RECURSIVE PushRows(_, _)
PushRows(sql, rows) ==
    IF rows = <<>> THEN sql
    ELSE PushRows(Pop(Pop(PushValues(sql \o Lit("("), Head(rows)))) \o Lit(")") \o Lit(","),
                  Tail(rows))

\* the values of the rows, row after row
RECURSIVE Drain(_)
Drain(rows) == IF rows = <<>> THEN <<>> ELSE Head(rows) \o Drain(Tail(rows))

\* impl Insertable for ModelInsertQuery: get_query. Each pop() takes the last
\* character, whatever it is: without a column the first two take " (" away,
\* and a row without a value loses its '(' and the character before it.
ModelInsertQuery_get_query(table_name, self) ==
    LET head == Lit("INSERT INTO " \o table_name) \o Lit(" ") \o Lit("(")
        listed == Pop(Pop(PushColumns(head, self.columns)))
        rows == PushRows(listed \o Lit(")") \o Lit(" VALUES") \o Lit(" "), self.values)
    IN  RawQuery(Pop(rows), Drain(self.values))

\* ---------------------------------------------------- the builder inputs

TableName == "t"

\* the model of the queries: #[table_name = "t"] struct { id, a, b }, every
\* field an Option
QueryModel ==
    << IdColumn, Column("a", "Text", <<>>, FALSE), Column("b", "Integer", <<>>, FALSE) >>

ColId == QueryColumn(TableName, "id")

ColA == QueryColumn(TableName, "a")

ColB == QueryColumn(TableName, "b")

\* T::select().columns(&[T::id]).filter(T::a.eq(2)).limit(1), as in tests::crud
SubSelects ==
    { ModelQuery_to_query(
        ModelQuery_limit(
            ModelQuery_filter(
                ModelQuery_columns(ModelQuery_select(TableName), <<ColId>>),
                eq(ColA, 2)),
            1)) }

Atoms ==
    { eq(ColA, 1), in_(ColId, Vec_to_query(<<2, 1>>)) }
    \cup { in_(ColId, q) : q \in SubSelects }

\* what stands on a side of AND / OR: the atoms, a filter without a parameter
\* and a list without a value
Operands == Atoms \cup { is_null(ColA), in_(ColId, Vec_to_query(<<>>)) }

\* the filters a program composes
Filters ==
    Operands
    \cup { and(x, y) : x \in Operands, y \in Operands }
    \cup { or(x, y) : x \in Operands, y \in Operands }
    \cup { and(x, or(y, z)) : x \in {eq(ColA, 2)}, y \in Atoms, z \in Operands }
    \cup { or(and(x, y), z) : x \in Operands, y \in Atoms, z \in {eq(ColA, 2)} }

\* the filters of the builder chains: no parameter, one, a list, none in a
\* list, a sub-select with its own, and composed ones
ChainFilters ==
    { eq(ColA, 1), is_null(ColA), in_(ColId, Vec_to_query(<<2, 1>>)),
      in_(ColId, Vec_to_query(<<>>)) }
    \cup { in_(ColId, q) : q \in SubSelects }
    \cup { and(eq(ColA, 2), or(is_null(ColA), in_(ColId, Vec_to_query(<<2, 1>>)))) }
    \cup { or(in_(ColId, q), eq(ColA, 1)) : q \in SubSelects }

Orders == { ColumnQueryOrder(ColA, "Ascending"), ColumnQueryOrder(ColA, "Descending") }

\* the rows a program inserts: a value or None (0) in each column of QueryModel
Rows == [DOMAIN QueryModel -> {0} \cup Values]

\* ---------------------------------------------------- the engine on rows
\* What self.connection.execute / prepare + query do with a statement of the
\* builders: the text is read piece by piece and the i-th "?" from the left
\* is bound to the i-th parameter. A row of table t is <<id, a, b>>, 0 is NULL.

\* the position in a row of the column a piece of text names
ColumnPos(s) ==
    CHOOSE i \in DOMAIN QueryModel :
        s \in { QueryModel[i].name,
                TableName \o "." \o QueryModel[i].name,
                TableName \o "." \o QueryModel[i].name \o " IN ",
                QueryModel[i].name \o "=" }

\* the number of "?" to the left of piece lo
Holes(sql, lo) == Cardinality({k \in 1..(lo - 1) : sql[k].s = "?"})

\* the parameter bound to the "?" at piece p
Bound(sql, params, p) == params[Holes(sql, p) + 1].v

\* the number of parentheses open at piece p, counted from piece lo
Depth(sql, lo, p) ==
    Cardinality({k \in lo..(p - 1) : sql[k].s = "("})
    - Cardinality({k \in lo..(p - 1) : sql[k].s = ")"})

\* the pieces of lo..hi that are the given word outside every parenthesis
TopLevel(sql, lo, hi, words) ==
    {p \in lo..hi : sql[p].s \in words /\ Depth(sql, lo, p) = 0}

Least(S) == CHOOSE p \in S : \A k \in S : p <= k

RECURSIVE Where(_, _, _, _, _, _)
RECURSIVE SelectRows(_, _, _, _, _)

\* the values a parenthesised list or sub-select at lo..hi stands for
InValues(sql, params, lo, hi, table) ==
    IF hi > lo + 1 /\ sql[lo + 1].s = "SELECT "
    THEN LET rows == SelectRows(sql, params, lo + 1, hi - 1, table)
         IN  {rows[k][ColumnPos(sql[lo + 2].s)] : k \in DOMAIN rows}
    ELSE {Bound(sql, params, p) : p \in {k \in lo..hi : sql[k].s = "?"}}

\* a comparison, IS NULL or IN at pieces lo..hi, on a row
Atom(sql, params, lo, hi, row, table) ==
    LET cell == row[ColumnPos(sql[lo].s)]
    IN  IF hi = lo + 2 /\ sql[hi].s = "IS NULL" THEN cell = 0
        ELSE IF hi = lo + 4 /\ sql[lo + 2].s = "=" /\ sql[hi].s = "?"
        THEN cell # 0 /\ cell = Bound(sql, params, hi)
        ELSE cell # 0 /\ cell \in InValues(sql, params, lo + 1, hi, table)

\* the expression at pieces lo..hi holds on a row: OR binds weaker than AND.
\* (Without NOT, an unknown result selects the rows a false one selects.)
Where(sql, params, lo, hi, row, table) ==
    LET ors == TopLevel(sql, lo, hi, {" OR "})
        ands == TopLevel(sql, lo, hi, {" AND "})
    IN  IF ors # {}
        THEN \/ Where(sql, params, lo, Least(ors) - 1, row, table)
             \/ Where(sql, params, Least(ors) + 1, hi, row, table)
        ELSE IF ands # {}
        THEN /\ Where(sql, params, lo, Least(ands) - 1, row, table)
             /\ Where(sql, params, Least(ands) + 1, hi, row, table)
        ELSE Atom(sql, params, lo, hi, row, table)

\* the rows of "SELECT .. FROM t [WHERE expr] [LIMIT ?]" at pieces lo..hi
SelectRows(sql, params, lo, hi, table) ==
    LET wheres == TopLevel(sql, lo, hi, {"WHERE "})
        limits == TopLevel(sql, lo, hi, {"LIMIT "})
        last == IF limits = {} THEN hi ELSE Least(limits) - 2
        found == IF wheres = {} THEN table
                 ELSE SelectSeq(table, LAMBDA row :
                          Where(sql, params, Least(wheres) + 1, last, row, table))
        limit == IF limits = {} THEN Len(found) ELSE Bound(sql, params, Least(limits) + 1)
    IN  SubSeq(found, 1, IF limit < Len(found) THEN limit ELSE Len(found))

\* the pieces that open a clause after the head of a statement
ClauseOpeners ==
    {"WHERE ", "LIMIT ", "OFFSET "}
    \cup {"ORDER BY " \o ColumnQueryOrder_into_sqlite(order) : order \in Orders}

\* row with the assignments at the pieces ps applied from left to right: of
\* two assignments to one column the right one stays
RECURSIVE Assign(_, _, _, _)
Assign(sql, params, ps, row) ==
    IF ps = {} THEN row
    ELSE LET p == Least(ps)
         IN  Assign(sql, params, ps \ {p},
                    [row EXCEPT ![ColumnPos(sql[p].s)] = Bound(sql, params, p + 1)])

\* "UPDATE t SET c=?, .. [WHERE expr]" on the table; the engine refuses a
\* statement without an assignment, with two WHERE, or with another clause
ExecUpdate(sql, params, table) ==
    LET openers == TopLevel(sql, 1, Len(sql), ClauseOpeners)
        wheres == TopLevel(sql, 1, Len(sql), {"WHERE "})
        sets == {p \in DOMAIN sql : sql[p].s \in {col.name \o "=" : col \in Range(QueryModel)}}
    IN  IF sets = {} \/ openers # wheres \/ Cardinality(wheres) > 1 THEN table
        ELSE [r \in DOMAIN table |->
                 IF wheres = {} \/ Where(sql, params, Least(wheres) + 1, Len(sql), table[r], table)
                 THEN Assign(sql, params, sets, table[r])
                 ELSE table[r]]

\* "DELETE FROM t [WHERE expr]" on the table, refused as ExecUpdate refuses
ExecDelete(sql, params, table) ==
    LET openers == TopLevel(sql, 1, Len(sql), ClauseOpeners)
        wheres == TopLevel(sql, 1, Len(sql), {"WHERE "})
    IN  IF openers # wheres \/ Cardinality(wheres) > 1 THEN table
        ELSE SelectSeq(table, LAMBDA row :
                 wheres # {} /\ ~Where(sql, params, Least(wheres) + 1, Len(sql), row, table))

\* the rows of table t before the statements: <<id, a, b>>
QueryTable == << <<1, 1, 1>>, <<2, 2, 2>>, <<3, 0, 1>>, <<4, 2, 0>> >>

\* ---------------------------------------------------- building and sending

\* what builder call number n wrote gets n as its call
Retag(b, n) ==
    [b EXCEPT !.query = Tag(@, n), !.params = Tag(@, n),
              !.columns = Tag(@, n), !.values = Tag(@, n)]

\* a builder call returned b
Called(op, b) ==
    /\ qb' = <<Retag(b, Len(qchain) + 1)>>
    /\ qchain' = Append(qchain, op)

\* a builder exists, was not sent, and the chain may grow
Building ==
    /\ qb # <<>>
    /\ qraw = <<>>
    /\ Len(qchain) <= (IF qb[1].kind = "update" THEN MaxUpdateCalls ELSE MaxCalls)

\* ModelExt::select
Select ==
    /\ qchain = <<>>
    /\ Called("select", ModelQuery_select(TableName))
    /\ UNCHANGED <<qfilter, qfrag, qraw>>
    /\ UNCHANGED <<mvars, qrest, rvars>>

\* ModelExt::count
Count ==
    /\ qchain = <<>>
    /\ Called("count", ModelQuery_count(TableName))
    /\ UNCHANGED <<qfilter, qfrag, qraw>>
    /\ UNCHANGED <<mvars, qrest, rvars>>

\* ModelExt::update
Update ==
    /\ qchain = <<>>
    /\ Called("update", ModelUpdateQuery_new(TableName))
    /\ UNCHANGED <<qfilter, qfrag, qraw>>
    /\ UNCHANGED <<mvars, qrest, rvars>>

\* ModelExt::delete
Delete ==
    /\ qchain = <<>>
    /\ Called("delete", ModelDeleteQuery_new(TableName))
    /\ UNCHANGED <<qfilter, qfrag, qraw>>
    /\ UNCHANGED <<mvars, qrest, rvars>>

\* ModelQueryFilter::get_query of a filter the program composed
FilterGetQuery(f) ==
    /\ qchain = <<>>
    /\ qraw = <<>>
    /\ qfilter' = <<f>>
    /\ qfrag' = <<get_query(f)>>
    /\ qchain' = <<"get_query">>
    /\ UNCHANGED <<qb, qraw>>
    /\ UNCHANGED <<mvars, qrest, rvars>>

\* self & rhs, and get_query of the result
BitAnd(self, rhs) ==
    /\ qchain = <<>>
    /\ qraw = <<>>
    /\ HasOps(self)
    /\ qops' = <<self, rhs>>
    /\ qfilter' = <<bitand(self, rhs)>>
    /\ qfrag' = <<get_query(bitand(self, rhs))>>
    /\ qchain' = <<"bitand">>
    /\ UNCHANGED <<qb, qraw, qin, qpanic, qtable>>
    /\ UNCHANGED <<mvars, rvars>>

\* self | rhs, and get_query of the result
BitOr(self, rhs) ==
    /\ qchain = <<>>
    /\ qraw = <<>>
    /\ HasOps(self)
    /\ qops' = <<self, rhs>>
    /\ qfilter' = <<bitor(self, rhs)>>
    /\ qfrag' = <<get_query(bitor(self, rhs))>>
    /\ qchain' = <<"bitor">>
    /\ UNCHANGED <<qb, qraw, qin, qpanic, qtable>>
    /\ UNCHANGED <<mvars, rvars>>

\* .filter(f) of the three builders
Filter(f) ==
    /\ Building
    /\ LET self == qb[1]
       IN  Called("filter",
                  CASE self.kind \in {"select", "count"} -> ModelQuery_filter(self, f)
                    [] self.kind = "update" -> ModelUpdateQuery_filter(self, f)
                    [] self.kind = "delete" -> ModelDeleteQuery_filter(self, f))
    /\ qfilter' = <<f>>
    /\ qfrag' = <<get_query(f)>>
    /\ UNCHANGED qraw
    /\ UNCHANGED <<mvars, qrest, rvars>>

\* .with_id(id) of ModelQuery
WithId(id) ==
    /\ Building
    /\ qb[1].kind \in {"select", "count"}
    /\ Called("with_id", ModelQuery_with_id(qb[1], id))
    /\ UNCHANGED <<qfilter, qfrag, qraw>>
    /\ UNCHANGED <<mvars, qrest, rvars>>

\* .limit(n) of the three builders
Limit(n) ==
    /\ Building
    /\ LET self == qb[1]
       IN  Called("limit",
                  CASE self.kind \in {"select", "count"} -> ModelQuery_limit(self, n)
                    [] self.kind = "update" -> ModelUpdateQuery_limit(self, n)
                    [] self.kind = "delete" -> ModelDeleteQuery_limit(self, n))
    /\ UNCHANGED <<qfilter, qfrag, qraw>>
    /\ UNCHANGED <<mvars, qrest, rvars>>

\* .offset(n) of the three builders
Offset(n) ==
    /\ Building
    /\ LET self == qb[1]
       IN  Called("offset",
                  CASE self.kind \in {"select", "count"} -> ModelQuery_offset(self, n)
                    [] self.kind = "update" -> ModelUpdateQuery_offset(self, n)
                    [] self.kind = "delete" -> ModelDeleteQuery_offset(self, n))
    /\ UNCHANGED <<qfilter, qfrag, qraw>>
    /\ UNCHANGED <<mvars, qrest, rvars>>

\* .order_by(order) of the three builders
OrderBy(order) ==
    /\ Building
    /\ LET self == qb[1]
       IN  Called("order_by",
                  CASE self.kind \in {"select", "count"} -> ModelQuery_order_by(self, order)
                    [] self.kind = "update" -> ModelUpdateQuery_order_by(self, order)
                    [] self.kind = "delete" -> ModelDeleteQuery_order_by(self, order))
    /\ UNCHANGED <<qfilter, qfrag, qraw>>
    /\ UNCHANGED <<mvars, qrest, rvars>>

\* .columns(&[..]) of ModelQuery
Columns(cols) ==
    /\ Building
    /\ qb[1].kind \in {"select", "count"}
    /\ Called("columns", ModelQuery_columns(qb[1], cols))
    /\ UNCHANGED <<qfilter, qfrag, qraw>>
    /\ UNCHANGED <<mvars, qrest, rvars>>

\* .set(column, value) of ModelUpdateQuery
Set(column, value) ==
    /\ Building
    /\ qb[1].kind = "update"
    /\ Called("set", ModelUpdateQuery_set(qb[1], column, value))
    /\ UNCHANGED <<qfilter, qfrag, qraw>>
    /\ UNCHANGED <<mvars, qrest, rvars>>

\* Connection::query: the statement of a select or count goes to the engine
ConnQuery ==
    /\ qb # <<>>
    /\ qraw = <<>>
    /\ qb[1].kind \in {"select", "count"}
    /\ qraw' = <<ModelQuery_get_query(qb[1])>>
    /\ UNCHANGED <<qb, qchain, qfilter, qfrag>>
    /\ UNCHANGED <<mvars, qrest, rvars>>

\* Connection::exec: the statement of an update or delete goes to the engine
ConnExec ==
    /\ qb # <<>>
    /\ qraw = <<>>
    /\ qb[1].kind \in {"update", "delete"}
    /\ LET raw == IF qb[1].kind = "update" THEN ModelUpdateQuery_get_query(qb[1])
                  ELSE ModelDeleteQuery_get_query(qb[1])
       IN  /\ qraw' = <<raw>>
           /\ qtable' = IF qb[1].kind = "update"
                        THEN ExecUpdate(raw.sql, raw.params, qtable)
                        ELSE ExecDelete(raw.sql, raw.params, qtable)
    /\ UNCHANGED <<qb, qchain, qfilter, qfrag, qops, qin, qpanic>>
    /\ UNCHANGED <<mvars, rvars>>

\* Connection::insert: into_insertable, get_query, execute
ConnInsert(cols, row) ==
    /\ qchain = <<>>
    /\ qraw = <<>>
    /\ ~qpanic
    /\ qin' = <<[cols |-> cols, rows |-> <<row>>]>>
    /\ IF into_insertable_ok(cols, row)
       THEN LET raw == ModelInsertQuery_get_query(TableName, into_insertable(cols, row))
            IN  /\ qraw' = <<RawQuery(Tag(raw.sql, 1), Tag(raw.params, 1))>>
                /\ UNCHANGED qpanic
       ELSE /\ qpanic' = TRUE
            /\ UNCHANGED qraw
    /\ qchain' = <<"insert">>
    /\ UNCHANGED <<qb, qfilter, qfrag, qops, qtable>>
    /\ UNCHANGED <<mvars, rvars>>

\* Connection::insert of an array or a slice of records
ConnInsertSlice(cols, rows) ==
    /\ qchain = <<>>
    /\ qraw = <<>>
    /\ ~qpanic
    /\ qin' = <<[cols |-> cols, rows |-> rows]>>
    /\ LET insertable ==
               Slice_into_insertable(cols, rows, 1,
                                     [panic |-> FALSE, columns |-> <<>>, values |-> <<>>])
           raw == ModelInsertQuery_get_query(TableName, insertable)
       IN  IF insertable.panic
           THEN /\ qpanic' = TRUE
                /\ UNCHANGED qraw
           ELSE /\ qraw' = <<RawQuery(Tag(raw.sql, 1), Tag(raw.params, 1))>>
                /\ UNCHANGED qpanic
    /\ qchain' = <<"insert_slice">>
    /\ UNCHANGED <<qb, qfilter, qfrag, qops, qtable>>
    /\ UNCHANGED <<mvars, rvars>>

InitOn(table) ==
    /\ db = <<>>
    /\ declared = <<>>
    /\ pc = "idle"
    /\ pass = 0
    /\ tables = <<>>
    /\ ti = 0
    /\ columns = <<>>
    /\ ci = 0
    /\ todo = {}
    /\ log = <<>>
    /\ db0 = <<>>
    /\ live0 = <<>>
    /\ registered = <<>>
    /\ qb = <<>>
    /\ qchain = <<>>
    /\ qfilter = <<>>
    /\ qfrag = <<>>
    /\ qraw = <<>>
    /\ qops = <<>>
    /\ qin = <<>>
    /\ qpanic = FALSE
    /\ qtable = table
    /\ rel = [related_key |-> <<>>, related |-> <<>>]
    /\ rop = "default"
    /\ rout = <<>>
    /\ rqueried = FALSE

InitQ == InitOn(QueryTable)

NextQ ==
    \/ Select
    \/ Count
    \/ Update
    \/ Delete
    \/ qchain = <<>> /\ \E f \in Filters : FilterGetQuery(f)
    \/ qchain = <<>> /\ \E self \in Operands, rhs \in Filters : BitAnd(self, rhs)
    \/ qchain = <<>> /\ \E self \in Operands, rhs \in Filters : BitOr(self, rhs)
    \/ \E f \in ChainFilters : Filter(f)
    \/ \E id \in Values : WithId(id)
    \/ \E n \in Values : Limit(n)
    \/ \E n \in Values : Offset(n)
    \/ \E order \in Orders : OrderBy(order)
    \/ Columns(<<ColId>>)
    \/ \E column \in {ColA, ColB}, value \in Values : Set(column, value)
    \/ ConnQuery
    \/ ConnExec
    \/ \E row \in Rows : ConnInsert(QueryModel, row)

SpecQ == InitQ /\ [][NextQ]_vars

\* ---------------------------------------------------- inserting records

\* the rows of one array or slice
MaxBatch == 2

\* #[table_name = "t"] struct { id: Option<i64>, a: String,
\* #[default_value(..)] c: i64 }
StrictModel ==
    << IdColumn, Column("a", "Text", <<"NotNull">>, FALSE),
       Column("c", "Integer", <<"NotNull">>, TRUE) >>

\* the models records are inserted of: every column takes None, or not
InsertModels == {QueryModel, StrictModel}

\* the records of a model: a value or None (0) in each column
RowsOf(cols) == [DOMAIN cols -> {0} \cup Values]

\* the arrays and slices of records of a model
Slices(cols) == UNION {[1..n -> RowsOf(cols)] : n \in 0..MaxBatch}

\* the records are drawn only where an insert can start
NextI ==
    \/ /\ qchain = <<>>
       /\ \E cols \in InsertModels : \E row \in RowsOf(cols) : ConnInsert(cols, row)
    \/ /\ qchain = <<>>
       /\ \E cols \in InsertModels : \E rows \in Slices(cols) : ConnInsertSlice(cols, rows)

SpecI == InitQ /\ [][NextI]_vars

\* ---------------------------------------------------- relation.rs
\* Relation<M> for the model M of table t. A record of M is <<id, a, b>> with
\* 0 for None, a row of t as the derived parse_row reads it.

\* impl Default for Relation
Relation_default == [related_key |-> <<>>, related |-> <<>>]

\* Relation::id
Relation_id(id) == [related_key |-> <<id>>, related |-> <<>>]

\* the derived Model::get_id: self.id.unwrap()
get_id(model) == model[1]

\* get_id panics on a record whose id is None
get_id_ok(model) == model[1] # 0

\* Relation::model
Relation_model(model) == [related_key |-> <<get_id(model)>>, related |-> <<>>]

\* impl Clone for Relation
Relation_clone(self) == [related_key |-> self.related_key, related |-> <<>>]

\* the derived Model::parse_row on the columns of M in a result row: every
\* field of M is an Option and takes None for NULL
parse_row(row) == row

\* the columns of M in a row of "SELECT * FROM child LEFT JOIN t ON t.id =
\* child.<relation>": the row of t with that id, or NULLs
JoinedColumns(key, table) ==
    IF \E r \in DOMAIN table : key # 0 /\ table[r][1] = key
    THEN table[CHOOSE r \in DOMAIN table : table[r][1] = key]
    ELSE [i \in DOMAIN QueryModel |-> 0]

\* Relation::parse_from_row panics on a NULL key, and on a joined record
\* without an id
Relation_parse_from_row_ok(key, related, is_joined) ==
    IF is_joined THEN get_id_ok(parse_row(related)) ELSE key # 0

\* Relation::parse_from_row: key is the relation column of the row, related
\* the columns of M the join added
Relation_parse_from_row(key, related, is_joined) ==
    IF ~is_joined THEN [related_key |-> <<key>>, related |-> <<>>]
    ELSE [related_key |-> <<get_id(parse_row(related))>>,
          related |-> <<parse_row(related)>>]

\* Relation::get_id
Relation_get_id(self) == self.related_key

\* Relation::try_get
Relation_try_get(self) == self.related

\* relation.rs:189-191 and 202-204: select().filter(id_column().eq(get_id())).limit(1);
\* the parameter of a key that is None is NULL
Relation_select_query(self) ==
    LET key == IF Relation_get_id(self) = <<>> THEN 0 ELSE Relation_get_id(self)[1]
    IN  ModelQuery_get_query(
            ModelQuery_limit(ModelQuery_filter(ModelQuery_select(TableName), eq(ColId, key)), 1))

\* the first record of the table, whatever the key
Relation_exec_unfiltered(raw, table) ==
    IF table = <<>> THEN <<>> ELSE <<parse_row(table[1])>>

\* select_query.exec(conn).unwrap().into_iter().next(): <<>> or <<record>>
Relation_exec(raw, table) ==
    LET rows == SelectRows(raw.sql, raw.params, 1, Len(raw.sql), table)
    IN  IF rows = <<>> THEN <<>> ELSE <<parse_row(rows[1])>>

\* the outcome of a Relation method: the relation afterwards, the value
\* returned, whether a statement went to the engine, whether it panicked
Outcome(self, out, queried, panic) ==
    [self |-> self, out |-> out, queried |-> queried, panic |-> panic]

\* Relation::fetch
Relation_fetch(self, table) ==
    IF self.related = <<>>
    THEN LET found == Relation_exec(Relation_select_query(self), table)
         IN  IF found = <<>> THEN Outcome(self, <<>>, TRUE, TRUE)
             ELSE Outcome([self EXCEPT !.related = found], found, TRUE, FALSE)
    ELSE Outcome(self, self.related, FALSE, FALSE)

\* get that fetches whether a record is cached or not
Relation_get_always_fetching(self, table) ==
    LET found == Relation_exec(Relation_select_query(self), table)
    IN  IF found = <<>> THEN Outcome(self, <<>>, TRUE, TRUE)
        ELSE Outcome([self EXCEPT !.related = found], found, TRUE, FALSE)

\* Relation::get
Relation_get(self, table) ==
    IF self.related = <<>> THEN Relation_fetch(self, table)
    ELSE Outcome(self, self.related, FALSE, FALSE)

\* Relation::take
Relation_take(self, table) ==
    LET fetched == IF self.related = <<>> THEN Relation_fetch(self, table)
                   ELSE Outcome(self, self.related, FALSE, FALSE)
    IN  IF fetched.panic THEN fetched
        ELSE Outcome([fetched.self EXCEPT !.related = <<>>], fetched.self.related,
                     fetched.queried, FALSE)

\* try_take that hands the record out and keeps it
Relation_try_take_keeping(self) ==
    Outcome(self, self.related, FALSE, FALSE)

\* Relation::try_take
Relation_try_take(self) ==
    Outcome([self EXCEPT !.related = <<>>], self.related, FALSE, FALSE)

\* Relation::fetch_once
Relation_fetch_once(self, table) ==
    LET found == Relation_exec(Relation_select_query(self), table)
    IN  Outcome(self, found, TRUE, found = <<>>)

\* FromSql for Relation: value.as_i64().ok(), None for NULL
Relation_column_result(value) ==
    [related_key |-> IF value = 0 THEN <<>> ELSE <<value>>, related |-> <<>>]

\* the keys a relation column holds: the last one is the id of no row
RelatedKeys == {1, 2, 3}

\* the tables of M the program starts on: the rows of QueryTable with the
\* ids in S
RelatedTable(S) == SelectSeq(QueryTable, LAMBDA row : row[1] \in S)

\* the records of M a program holds: the rows of the table, and a record
\* that was never inserted
RelatedRecords == {qtable[r] : r \in DOMAIN qtable} \cup {<<0, 1, 1>>}

\* one call on the Relation: name is the method, o its outcome
RelationCall(name, o) ==
    /\ ~qpanic
    /\ rop' = name
    /\ rel' = o.self
    /\ rout' = o.out
    /\ rqueried' = o.queried
    /\ qpanic' = o.panic
    /\ UNCHANGED <<mvars, qvars, qops, qin, qtable>>

RelId(id) == RelationCall("id", Outcome(Relation_id(id), <<>>, FALSE, FALSE))

RelModel(model) ==
    RelationCall("model",
        IF get_id_ok(model) THEN Outcome(Relation_model(model), <<>>, FALSE, FALSE)
        ELSE Outcome(rel, <<>>, FALSE, TRUE))

RelDefault == RelationCall("default", Outcome(Relation_default, <<>>, FALSE, FALSE))

RelClone == RelationCall("clone", Outcome(Relation_clone(rel), <<>>, FALSE, FALSE))

RelColumnResult(value) ==
    RelationCall("column_result",
        Outcome(Relation_column_result(value), <<>>, FALSE, FALSE))

\* parse_from_row on a row of the child table whose relation column is key,
\* selected with the join (is_joined) or without
RelParseFromRow(key, is_joined) ==
    LET related == JoinedColumns(key, qtable)
    IN  RelationCall(IF is_joined THEN "parse_joined" ELSE "parse",
            IF Relation_parse_from_row_ok(key, related, is_joined)
            THEN Outcome(Relation_parse_from_row(key, related, is_joined),
                         <<>>, is_joined, FALSE)
            ELSE Outcome(rel, <<>>, is_joined, TRUE))

RelGetId == RelationCall("get_id", Outcome(rel, Relation_get_id(rel), FALSE, FALSE))

RelTryGet == RelationCall("try_get", Outcome(rel, Relation_try_get(rel), FALSE, FALSE))

RelTryTake == RelationCall("try_take", Relation_try_take(rel))

RelGet == RelationCall("get", Relation_get(rel, qtable))

RelTake == RelationCall("take", Relation_take(rel, qtable))

RelFetch == RelationCall("fetch", Relation_fetch(rel, qtable))

RelFetchOnce == RelationCall("fetch_once", Relation_fetch_once(rel, qtable))

\* M::update().set(a, value).filter(id.eq(id)).exec(conn) by the program
\* that holds the Relation
RelatedUpdate(id, value) ==
    LET raw == ModelUpdateQuery_get_query(
                   ModelUpdateQuery_filter(
                       ModelUpdateQuery_set(ModelUpdateQuery_new(TableName), ColA, value),
                       eq(ColId, id)))
    IN  /\ ~qpanic
        /\ qtable' = ExecUpdate(raw.sql, raw.params, qtable)
        /\ rop' = "update"
        /\ rout' = <<>>
        /\ rqueried' = TRUE
        /\ UNCHANGED <<mvars, qvars, qops, qin, qpanic, rel>>

InitR == \E S \in SUBSET {1, 2} : InitOn(RelatedTable(S))

NextR ==
    \/ \E id \in RelatedKeys : RelId(id)
    \/ \E model \in RelatedRecords : RelModel(model)
    \/ RelDefault
    \/ RelClone
    \/ \E value \in {0} \cup RelatedKeys : RelColumnResult(value)
    \/ \E key \in {0} \cup RelatedKeys : \E is_joined \in BOOLEAN :
           RelParseFromRow(key, is_joined)
    \/ RelGetId
    \/ RelTryGet
    \/ RelTryTake
    \/ RelGet
    \/ RelTake
    \/ RelFetch
    \/ RelFetchOnce
    \/ \E id \in {1, 2} : \E value \in Values : RelatedUpdate(id, value)

SpecR == InitR /\ [][NextR]_vars

\* ---------------------------------------------------- relation columns

\* ColumnRelation::new
ColumnRelation_new(table, local_table, column, ref_col, local_col) ==
    [table |-> table, column |-> column, local_table |-> local_table,
     foreign_key_column |-> ref_col, local_key_column_name |-> local_col]

\* a column constant of a Relation<M> field: Column::new_const with
\* Some(ColumnRelation::new(..))
RelationColumn(table_name, name, relation) ==
    [table_name |-> table_name, name |-> name, relation |-> relation]

\* get_relation that finds a relation to the column's own table on a column
\* declared without one
get_relation_on_every_column(self) ==
    IF "relation" \in DOMAIN self THEN <<self.relation>>
    ELSE <<ColumnRelation_new(self.table_name, self.table_name, "id",
                              QueryColumn(self.table_name, "id"), self.name)>>

\* Column::get_relation: <<>> or <<relation>>
get_relation(self) == IF "relation" \in DOMAIN self THEN <<self.relation>> ELSE <<>>

\* #[table_name = "p"] struct { id: Option<i64>, title: Option<String>,
\* author: Relation<T> }
ChildTable == "p"

ColTitle == QueryColumn(ChildTable, "title")

\* model_derive: ColumnRelation::new(T::TABLE_NAME_CONST, Self::TABLE_NAME_CONST,
\* "id", &T::ID_COLUMN_CONST, "author")
ColAuthor ==
    RelationColumn(ChildTable, "author",
                   ColumnRelation_new(TableName, ChildTable, "id", ColId, "author"))

ChildColumns == {ColTitle, ColAuthor}

\* ref_ and join_relation panic on a column without a relation
is_relation(self) == get_relation(self) # <<>>

\* ref_ with .limit(1) after .with_id(id)
Column_ref_with_limit(self, table_name, id) ==
    LET relation == get_relation(self)[1]
    IN  in_(self,
            ModelQuery_to_query(
                ModelQuery_limit(
                    ModelQuery_with_id(
                        ModelQuery_columns(ModelQuery_select(table_name),
                                           <<relation.foreign_key_column>>),
                        id),
                    1)))

\* Column::ref_::<M>(id), M the model of table_name
Column_ref_(self, table_name, id) ==
    LET relation == get_relation(self)[1]
    IN  in_(self,
            ModelQuery_to_query(
                ModelQuery_with_id(
                    ModelQuery_columns(ModelQuery_select(table_name),
                                       <<relation.foreign_key_column>>),
                    id)))

\* ModelQuery::join_relation
ModelQuery_join_relation(self, column) ==
    LET relation == get_relation(column)[1]
    IN  [self EXCEPT
            !.query = @ \o Lit(" LEFT JOIN " \o relation.table \o " ON "
                               \o relation.table \o "."
                               \o relation.foreign_key_column.name \o " = "
                               \o relation.local_table \o "."
                               \o relation.local_key_column_name),
            !.joins = Append(@, relation.local_key_column_name)]

\* P::select()
SelectChild ==
    /\ qchain = <<>>
    /\ Called("select", ModelQuery_select(ChildTable))
    /\ UNCHANGED <<qfilter, qfrag, qraw>>
    /\ UNCHANGED <<mvars, qrest, rvars>>

\* column.ref_::<T>(id) and get_query() of what it returns; a panic returns
\* no filter
ColumnRef(column, id) ==
    /\ qchain = <<>>
    /\ qraw = <<>>
    /\ ~qpanic
    /\ qops' = <<column, id>>
    /\ qchain' = <<"ref_">>
    /\ IF is_relation(column)
       THEN /\ qfilter' = <<Column_ref_(column, TableName, id)>>
            /\ qfrag' = <<get_query(Column_ref_(column, TableName, id))>>
            /\ UNCHANGED qpanic
       ELSE /\ qpanic' = TRUE
            /\ UNCHANGED <<qfilter, qfrag>>
    /\ UNCHANGED <<qb, qraw, qin, qtable>>
    /\ UNCHANGED <<mvars, rvars>>

\* .join_relation(column) on a select: the builder is moved into the call,
\* and a panic returns none
JoinRelation(column) ==
    /\ Building
    /\ ~qpanic
    /\ qb[1].kind = "select"
    /\ qops' = <<column>>
    /\ IF is_relation(column)
       THEN /\ Called("join_relation", ModelQuery_join_relation(qb[1], column))
            /\ UNCHANGED qpanic
       ELSE /\ qb' = <<>>
            /\ qchain' = Append(qchain, "join_relation")
            /\ qpanic' = TRUE
    /\ UNCHANGED <<qfilter, qfrag, qraw, qin, qtable>>
    /\ UNCHANGED <<mvars, rvars>>

\* the filters ref_ builds on the relation column
RefFilters == {Column_ref_(ColAuthor, TableName, id) : id \in Values}

NextJ ==
    \/ SelectChild
    \/ \E column \in ChildColumns, id \in Values : ColumnRef(column, id)
    \/ \E column \in ChildColumns : JoinRelation(column)
    \/ \E f \in RefFilters : Filter(f)
    \/ \E n \in Values : Limit(n)
    \/ \E n \in Values : Offset(n)
    \/ \E order \in Orders : OrderBy(order)
    \/ ConnQuery

SpecJ == InitQ /\ [][NextJ]_vars

\* ---------------------------------------------------- parse_row with joined relations

\* #[table_name = "w"] struct { id: Option<i64>, author: Relation<T>,
\* editor: Relation<U> }, U being #[table_name = "u"] struct { id: Option<i64>,
\* a: Option<i64> }
PostTable == "w"

EditorTable == "u"

PostAuthor ==
    RelationColumn(PostTable, "author",
                   ColumnRelation_new(TableName, PostTable, "id", ColId, "author"))

PostEditor ==
    RelationColumn(PostTable, "editor",
                   ColumnRelation_new(EditorTable, PostTable, "id",
                                      QueryColumn(EditorTable, "id"), "editor"))

PostColumns == {PostAuthor, PostEditor}

\* the rows of u, and the rows of w a result can hold: <<id, author, editor>>
EditorRows == << <<1, 2>>, <<2, 1>> >>

PostRows == {<<id, author, editor>> : id \in {1, 2}, author \in 1..4, editor \in 1..3}

\* the columns one LEFT JOIN adds to the row of a post: the row of the
\* related table whose id is the post's key, or NULLs
LeftJoined(post, name) ==
    IF name = "author" THEN JoinedColumns(post[2], qtable)
    ELSE IF \E r \in DOMAIN EditorRows : EditorRows[r][1] = post[3]
         THEN EditorRows[CHOOSE r \in DOMAIN EditorRows : EditorRows[r][1] = post[3]]
         ELSE <<0, 0>>

\* the row "SELECT * FROM w LEFT JOIN .. LEFT JOIN .." gives for a post: the
\* columns of w, then those of each joined table in the order of the joins
RECURSIVE ResultRow(_, _)
ResultRow(post, joins) ==
    IF joins = <<>> THEN post
    ELSE ResultRow(post, SubSeq(joins, 1, Len(joins) - 1))
             \o LeftJoined(post, joins[Len(joins)])

\* row.get(i + offset).ok() for the n fields of a related model: None where
\* the row has no such column
Cells(row, offset, n) ==
    [i \in 1..n |-> IF offset + i \in DOMAIN row THEN row[offset + i] ELSE 0]

\* the derived parse_row of the model of w: offset_counter starts at
\* FIELDS_NUM_CONST, and each joined relation reads count_columns() columns
\* at offset + offset_counter and moves the counter on
Post_parse_row(row, offset, joins) ==
    LET fields == 3
        author_joined == "author" \in Range(joins)
        editor_joined == "editor" \in Range(joins)
        author_cells == Cells(row, offset + fields, Len(QueryModel))
        counter == IF author_joined THEN fields + Len(QueryModel) ELSE fields
        editor_cells == Cells(row, offset + counter, 2)
    IN  [ok |-> /\ Relation_parse_from_row_ok(row[offset + 2], author_cells, author_joined)
                /\ Relation_parse_from_row_ok(row[offset + 3], editor_cells, editor_joined),
         id |-> row[offset + 1],
         author |-> Relation_parse_from_row(row[offset + 2], author_cells, author_joined),
         editor |-> Relation_parse_from_row(row[offset + 3], editor_cells, editor_joined)]

\* the model of w: select()
SelectPost ==
    /\ qchain = <<>>
    /\ Called("select", ModelQuery_select(PostTable))
    /\ UNCHANGED <<qfilter, qfrag, qraw>>
    /\ UNCHANGED <<mvars, qrest, rvars>>

\* exec(conn) of the select on a table w that holds the one row post:
\* parse_rows(rows, 0, &self.joins)
QueryPost(post) ==
    /\ qb # <<>>
    /\ qraw = <<>>
    /\ ~qpanic
    /\ LET parsed == Post_parse_row(ResultRow(post, qb[1].joins), 0, qb[1].joins)
       IN  /\ qraw' = <<ModelQuery_get_query(qb[1])>>
           /\ qops' = <<post>>
           /\ rop' = "exec"
           /\ rout' = IF parsed.ok THEN <<parsed>> ELSE <<>>
           /\ qpanic' = ~parsed.ok
    /\ UNCHANGED <<qb, qchain, qfilter, qfrag, qin, qtable, rel, rqueried>>
    /\ UNCHANGED mvars

\* each relation is joined at most once
NextP ==
    \/ SelectPost
    \/ /\ qb # <<>>
       /\ \E column \in PostColumns :
              /\ column.name \notin Range(qb[1].joins)
              /\ JoinRelation(column)
    \/ /\ qb # <<>>
       /\ \E post \in PostRows : QueryPost(post)

SpecP == InitQ /\ [][NextP]_vars

\* ---------------------------------------------------- columns(..) along the chain

\* chain length up to which columns(..) is called
MaxProjectionCalls == 3

\* #[table_name = "k"] struct { id: Option<i64> }
KeyTable == "k"

\* the column lists handed to columns(..)
Projections == { <<QueryColumn(ChildTable, "id")>>, <<ColTitle, ColAuthor>> }

\* the filters of the chain: a comparison, and membership in K::select()
ProjectionFilters ==
    { eq(ColTitle, 1), in_(ColAuthor, ModelQuery_to_query(ModelQuery_select(KeyTable))) }

\* .columns(cols) on the select of the child model
ProjectColumns(cols) ==
    /\ qb # <<>>
    /\ qraw = <<>>
    /\ ~qpanic
    /\ qb[1].kind = "select"
    /\ Len(qchain) <= MaxProjectionCalls
    /\ Called("columns", ModelQuery_columns(qb[1], cols))
    /\ qops' = <<cols>>
    /\ UNCHANGED <<qfilter, qfrag, qraw, qin, qpanic, qtable>>
    /\ UNCHANGED <<mvars, rvars>>

NextC ==
    \/ SelectChild
    \/ JoinRelation(ColAuthor)
    \/ \E f \in ProjectionFilters : Filter(f)
    \/ \E n \in Values : Limit(n)
    \/ \E cols \in Projections : ProjectColumns(cols)

SpecC == InitQ /\ [][NextC]_vars

\* ---------------------------------------------------- nested and / or

\* the leaves a composed filter has at most
MaxLeaves == 3

\* the leaves of the composed filters: one parameter, two, none
Leaves == { eq(ColA, 1), in_(ColId, Vec_to_query(<<2, 1>>)), is_null(ColA) }

\* every way of combining n leaves with and(..) and or(..)
RECURSIVE TreesOf(_)
TreesOf(n) ==
    IF n = 1 THEN Leaves
    ELSE UNION { { and(l, r) : l \in TreesOf(k), r \in TreesOf(n - k) }
                 \cup { or(l, r) : l \in TreesOf(k), r \in TreesOf(n - k) }
                 : k \in 1..(n - 1) }

Trees == UNION { TreesOf(n) : n \in 1..MaxLeaves }

NextF == qchain = <<>> /\ \E f \in Trees : FilterGetQuery(f)

SpecF == InitQ /\ [][NextF]_vars

\* ---------------------------------------------------- in_ / not_in

\* the values of a list handed to in_ / not_in
MaxList == 3

\* vec![..] of up to MaxList values
Lists == UNION { [1..n -> Values] : n \in 0..MaxList }

\* the selects handed to in_ / not_in: without a parameter, with one, and with
\* the parameter of a filter before the parameter of a limit
MemberQueries ==
    { ModelQuery_columns(ModelQuery_select(TableName), <<ColId>>),
      ModelQuery_with_id(ModelQuery_columns(ModelQuery_select(TableName), <<ColId>>), 2),
      ModelQuery_limit(
          ModelQuery_filter(ModelQuery_columns(ModelQuery_select(TableName), <<ColId>>),
                            eq(ColA, 2)),
          1) }

\* what in_ / not_in are handed: a list or a select
MemberSources ==
    { [kind |-> "list", values |-> values] : values \in Lists }
    \cup { [kind |-> "query", query |-> query] : query \in MemberQueries }

\* impl ColumnInQuery: values.to_query()
to_query(source) ==
    IF source.kind = "list" THEN Vec_to_query(source.values)
    ELSE ModelQuery_to_query(source.query)

\* left.and(column.in_(source)).or(right), or with not_in; left and right are
\* <<>> or <<filter>>; then get_query() of the whole
MemberFilter(column, negated, source, left, right) ==
    /\ qchain = <<>>
    /\ qraw = <<>>
    /\ LET member == IF negated THEN not_in(column, to_query(source))
                     ELSE in_(column, to_query(source))
           front == IF left = <<>> THEN member ELSE and(left[1], member)
           whole == IF right = <<>> THEN front ELSE or(front, right[1])
       IN  /\ qfilter' = <<whole>>
           /\ qfrag' = <<get_query(whole)>>
    /\ qops' = <<column, negated, source, left, right>>
    /\ qchain' = <<"in_">>
    /\ UNCHANGED <<qb, qraw, qin, qpanic, qtable>>
    /\ UNCHANGED <<mvars, rvars>>

NextM ==
    /\ qchain = <<>>
    /\ \E column \in {ColId, ColA}, negated \in BOOLEAN, source \in MemberSources :
       \E left \in {<<>>, <<eq(ColA, 1)>>}, right \in {<<>>, <<eq(ColB, 2)>>} :
           MemberFilter(column, negated, source, left, right)

SpecM == InitQ /\ [][NextM]_vars

\* ---------------------------------------------------- column.rs: PartialEq

\* impl PartialEq for Column: name(), ty and flags(), a Vec compared element
\* by element
Column_eq(self, other) ==
    self.name = other.name /\ self.ty = other.ty /\ self.flags = other.flags

\* the flags a descriptor lists at most
MaxFlags == 2

\* Column::new(name, table, ty, flags, default, relation): the flags in any
\* order, a default or none, a relation or none
Descriptors ==
    { [name |-> name, ty |-> ty, flags |-> flags, default |-> default,
       relation |-> relation] :
        name \in {"a", "b"}, ty \in {"Integer", "Text"},
        flags \in UNION { [1..n -> {"NotNull", "Unique"}] : n \in 0..MaxFlags },
        default \in BOOLEAN,
        relation \in {<<>>, <<ColumnRelation_new(TableName, ChildTable, "id", ColId, "a")>>} }

\* self == other
ColumnEq(self, other) ==
    /\ qops = <<>>
    /\ rop' = "eq"
    /\ rout' = <<Column_eq(self, other)>>
    /\ qops' = <<self, other>>
    /\ UNCHANGED <<rel, rqueried, qin, qpanic, qtable>>
    /\ UNCHANGED <<mvars, qvars>>

NextE ==
    /\ qops = <<>>
    /\ \E self \in Descriptors, other \in Descriptors : ColumnEq(self, other)

SpecE == InitQ /\ [][NextE]_vars

\* ---------------------------------------------------- what the claims use

\* the tables of database d without the engine's own sqlite_sequence
LiveTables(d) == {d[i].name : i \in DOMAIN d} \ {"sqlite_sequence"}

ColumnNames(cols) == {cols[i].name : i \in DOMAIN cols}

\* the flags of a stored column as the engine holds them
StoredFlags(t, c) ==
    (IF c.notnull THEN {"NotNull"} ELSE {})
    \cup (IF c.pk THEN {"PrimaryKey"} ELSE {})
    \cup (IF c.unique THEN {"Unique"} ELSE {})
    \cup (IF c.pk /\ t.autoinc THEN {"AutoIncrement"} ELSE {})

StoredColumnOf(t, name) == t.cols[ColumnIndex(t, name)]

\* the database after the statements of l, in order, from database d
RECURSIVE Replay(_, _)
Replay(d, l) == IF l = <<>> THEN d ELSE Replay(Exec(d, Head(l)), Tail(l))

Issued(op, table) == \E i \in DOMAIN log : log[i].op = op /\ log[i].table = table

\* the pass rebuilt table T
Rebuilt(T) == Issued("CREATE TABLE", TempName(T))

\* the tables that were live when the pass started and are declared
Kept == {T \in DOMAIN declared : HasTable(db0, T)}

\* the declared columns of T whose live column (as the pass found it) has
\* another type
Retyped(T) ==
    {i \in DOMAIN declared[T] :
        /\ ColumnIndex(GetTable(db0, T), declared[T][i].name) # 0
        /\ from_str(StoredColumnOf(GetTable(db0, T), declared[T][i].name).type)
               # declared[T][i].ty}

\* C1: after a migrate that completed, the live tables (sqlite_sequence
\* aside) are exactly the declared tables.
C1_LiveTablesAreDeclared ==
    pc = "done" => LiveTables(db) = DOMAIN declared

C1_Witness ==
    /\ pc = "done"
    /\ \E T \in LiveTables(db0) : T \notin DOMAIN declared /\ ~HasTable(db, T)
    /\ \E T \in DOMAIN declared : ~HasTable(db0, T) /\ HasTable(db, T)

\* C2: after a migrate that completed, every table that was live and is
\* declared has exactly the declared column names.
C2_ColumnNamesAreDeclared ==
    pc = "done" =>
        \A T \in Kept :
            /\ HasTable(db, T)
            /\ ColumnNames(GetTable(db, T).cols) = ColumnNames(declared[T])

C2_Witness ==
    /\ pc = "done"
    /\ Issued("DROP COLUMN", "t")
    /\ Issued("ADD COLUMN", "t")
    /\ ~Rebuilt("t")

\* C3: after a migrate that completed, every declared column of a table that
\* was live and is declared has the declared type and exactly the declared
\* flags (a difference in type or flags, on either side, forced a rebuild).
C3_TypesAndFlagsAreDeclared ==
    pc = "done" =>
        \A T \in Kept : \A i \in DOMAIN declared[T] :
            LET t == GetTable(db, T)
                c == StoredColumnOf(t, declared[T][i].name)
            IN  /\ from_str(c.type) = declared[T][i].ty
                /\ StoredFlags(t, c) = Range(declared[T][i].flags)

\* C4: on a database that was empty, every pass after the first executes no
\* statement.
C4_SecondPassIsEmpty ==
    (live0 = <<>> /\ pass >= 2) => log = <<>>

C4_Witness ==
    /\ live0 = <<>>
    /\ pass = 2
    /\ pc = "done"
    /\ DOMAIN declared = {"t", "u"}
    /\ Len(declared["t"]) = 3

\* C5: a table that was live and is declared and was not rebuilt keeps its
\* rows; every row keeps its value in each column that is there before and
\* after, and holds the declared default, or NULL without one, in each added
\* column.
C5_AddDropKeepsData ==
    pc = "done" =>
        \A T \in Kept :
            ~Rebuilt(T) =>
                LET old == GetTable(db0, T)
                    new == GetTable(db, T)
                IN  /\ Len(new.rows) = Len(old.rows)
                    /\ \A r \in DOMAIN old.rows : \A p \in DOMAIN new.cols :
                          LET n == new.cols[p].name
                              q == ColumnIndex(old, n)
                          IN  IF q # 0 THEN new.rows[r][p] = old.rows[r][q]
                              ELSE \E i \in DOMAIN declared[T] :
                                      /\ declared[T][i].name = n
                                      /\ new.rows[r][p] =
                                            IF declared[T][i].default
                                            THEN DefaultValue(n) ELSE Null

C5_Witness ==
    /\ pc = "done"
    /\ "t" \in Kept
    /\ ~Rebuilt("t")
    /\ Issued("DROP COLUMN", "t")
    /\ Issued("ADD COLUMN", "t")
    /\ Len(GetTable(db, "t").rows) = MaxRows
    /\ \E i \in DOMAIN declared["t"] :
          declared["t"][i].default /\ ColumnIndex(GetTable(db0, "t"), declared["t"][i].name) = 0

C7_FailureAborts ==
    [][ /\ pc' = "failed" => (log' = log /\ db' = Replay(db0, log))
        /\ pc = "failed" => UNCHANGED vars ]_vars

C7_Witness ==
    /\ pc = "failed"
    /\ Len(log) >= 2
    /\ db # db0

\* the values the placeholders of a text were written for, left to right
Intended(text) ==
    LET holes == SelectSeq(text, LAMBDA c : c.s = "?")
    IN  [i \in DOMAIN holes |-> holes[i].v]

\* the number of "?" in the characters of a statement
PlaceholderCount(sql) == Cardinality({i \in DOMAIN sql : sql[i] = "?"})

\* a filter and the filters it is combined of
RECURSIVE Subfilters(_)
Subfilters(f) ==
    {f} \cup (IF f.kind \in {"And", "Or"}
              THEN Subfilters(f.filter0) \cup Subfilters(f.filter1)
              ELSE {})

\* fragment q is (s0 + word + s1, p0 ++ p1) and its parameters are in the
\* order of its placeholders
OrderingLaw(q, q0, q1, word) ==
    /\ Sql(q.sql) = Concat(Concat(Sql(q0.sql), <<word>>), Sql(q1.sql))
    /\ ParamValues(q.params) = ParamValues(q0.params) \o ParamValues(q1.params)
    /\ Intended(q.sql) = ParamValues(q.params)

\* the calls of s never decrease from left to right
Monotone(s) == \A i \in 1..(Len(s) - 1) : s[i].call <= s[i + 1].call

\* C8: the fragment of F0 AND F1 is exactly (s0 + " AND " + s1, p0 ++ p1), that
\* of F0 OR F1 exactly (s0 + " OR " + s1, p0 ++ p1), and the parameters are in
\* the left-to-right order of the placeholders of the text.
C8_FragmentOrderingLaw ==
    \A i \in DOMAIN qfilter : \A f \in Subfilters(qfilter[i]) :
        f.kind \in {"And", "Or"} =>
            OrderingLaw(IF f = qfilter[i] THEN qfrag[i] ELSE get_query(f),
                        get_query(f.filter0), get_query(f.filter1),
                        IF f.kind = "And" THEN " AND " ELSE " OR ")

C8_Witness ==
    \E i \in DOMAIN qfilter :
        /\ qfilter[i].kind = "And"
        /\ qfilter[i].filter1.kind = "Or"
        /\ Len(qfrag[i].params) >= 3
        /\ qfrag[i].params[1].v # qfrag[i].params[3].v

\* C9: a select, count, update or delete statement handed to the engine has
\* as many placeholders as parameters, and the i-th parameter is the value
\* the i-th placeholder from the left was written for.
C9_PlaceholdersMatchParams ==
    \A i \in DOMAIN qraw :
        qchain[1] \in {"select", "count", "update", "delete"} =>
            /\ PlaceholderCount(Sql(qraw[i].sql)) = Len(qraw[i].params)
            /\ Intended(qraw[i].sql) = ParamValues(qraw[i].params)

C9_Witness ==
    \E i \in DOMAIN qraw :
        /\ qchain[1] = "update"
        /\ \E j, k \in DOMAIN qchain : j < k /\ qchain[j] = "filter" /\ qchain[k] = "set"
        /\ \E f \in Subfilters(qfilter[1]) : f \in {in_(ColId, q) : q \in SubSelects}
        /\ Len(qraw[i].params) >= 4
        /\ qraw[i].params[1].v # qraw[i].params[2].v

\* C10 as the specification states it: in the statement handed to the engine,
\* what a later builder call wrote is later in the text and later in the
\* parameter list than what an earlier call wrote, update chains with set(...)
\* after filter(...) included.
C10_LaterCallsAppearLater ==
    \A i \in DOMAIN qraw : Monotone(qraw[i].sql) /\ Monotone(qraw[i].params)

\* C10: in the statement handed to the engine, what a later builder call
\* wrote is later in the text and in the parameter list than what an earlier
\* call wrote, set(...) calls aside; the assignments of the set(...) calls are
\* in call order among themselves, and they and their values come before
\* everything any other call after the constructor wrote.
C10_LaterCallsAppearLaterSetFirst ==
    \A i \in DOMAIN qraw :
        LET raw == qraw[i]
            IsSet(x) == qchain[x.call] = "set"
            NotSet(x) == qchain[x.call] # "set"
            SetFirst(s) ==
                \A k \in DOMAIN s :
                    (NotSet(s[k]) /\ s[k].call # 1) =>
                        \A j \in k..Len(s) : NotSet(s[j])
        IN  /\ Monotone(SelectSeq(raw.sql, NotSet))
            /\ Monotone(SelectSeq(raw.params, NotSet))
            /\ Monotone(SelectSeq(raw.sql, IsSet))
            /\ Monotone(SelectSeq(raw.params, IsSet))
            /\ SetFirst(raw.sql)
            /\ SetFirst(raw.params)

C10_Witness ==
    \E i \in DOMAIN qraw :
        /\ qchain[1] = "update"
        /\ \E j, k \in DOMAIN qchain : j < k /\ qchain[j] = "limit" /\ qchain[k] = "set"
        /\ qraw[i].params[1].call > qraw[i].params[Len(qraw[i].params)].call

\* the pieces of an update statement that open a clause of the query part
ClauseWords ==
    {"WHERE ", "LIMIT ", "OFFSET "}
    \cup {"ORDER BY " \o ColumnQueryOrder_into_sqlite(order) : order \in Orders}

\* the calls of a chain that are set(...) calls, in call order
SetCalls == SelectSeq([i \in DOMAIN qchain |-> i], LAMBDA i : qchain[i] = "set")

\* C11: in the statement of an update chain, the assignments of the SET clause
\* are those of the set(...) calls in call order and stand before every
\* WHERE / ORDER BY / LIMIT / OFFSET, and the first parameters are the values
\* of the set(...) calls in call order, before every other parameter, however
\* set(...) is interleaved with filter, limit, offset and order_by.
C11_SetClauseFirst ==
    \A i \in DOMAIN qraw :
        qchain[1] = "update" =>
            LET raw == qraw[i]
                cols == qb[1].columns
                sets == SetCalls
                n == Len(sets)
                names == {col.name \o "=" : col \in Range(QueryModel)}
                assigned == SelectSeq(raw.sql, LAMBDA c : c.s \in names)
                words == {j \in DOMAIN raw.sql : raw.sql[j].s \in ClauseWords}
                written == {k \in DOMAIN raw.sql : qchain[raw.sql[k].call] = "set"}
            IN  /\ Len(cols) = n
                /\ Len(assigned) = n
                /\ \A j \in 1..n :
                       /\ assigned[j].call = sets[j]
                       /\ assigned[j].s = cols[j].name \o "="
                /\ \A j \in words : \A k \in written : k < j
                /\ Len(raw.params) >= n
                /\ \A j \in 1..n :
                       /\ raw.params[j].call = sets[j]
                       /\ raw.params[j].v = cols[j].v
                /\ \A j \in (n + 1)..Len(raw.params) : qchain[raw.params[j].call] # "set"
                /\ Intended(raw.sql) = ParamValues(raw.params)

C11_Witness ==
    \E i \in DOMAIN qraw :
        /\ qchain = <<"update", "set", "filter", "set">>
        /\ Len(qraw[i].params) >= 3
        /\ qraw[i].params[1].v # qraw[i].params[2].v
        /\ qb[1].columns[1].name # qb[1].columns[2].name

\* C12: the fragment of self & rhs has the text and the parameter list of the
\* fragment of self.and(rhs), and that of self | rhs those of self.or(rhs),
\* for every self that has the operators and every filter rhs.
C12_OperatorsAreMethods ==
    \A i \in DOMAIN qfrag :
        qops # <<>> =>
            LET method == get_query(IF qchain[1] = "bitand" THEN and(qops[1], qops[2])
                                    ELSE or(qops[1], qops[2]))
            IN  /\ Sql(qfrag[i].sql) = Sql(method.sql)
                /\ ParamValues(qfrag[i].params) = ParamValues(method.params)

C12_Witness ==
    /\ qchain = <<"bitand">>
    /\ qops # <<>>
    /\ qops[1].kind = "InQueryFilter"
    /\ qops[2].kind = "Or"
    /\ get_query(qops[1]).params # <<>>
    /\ ParamValues(get_query(qops[1]).params) # ParamValues(get_query(qops[2]).params)
    /\ Len(qfrag[1].params) >= 3

\* the columns of a record that hold a value
Present(row) == {i \in DOMAIN row : row[i] # 0}

\* the column names a statement lists, left to right
Listed(cols, sql) ==
    LET names == SelectSeq(sql, LAMBDA c : c.s \in {col.name : col \in Range(cols)})
    IN  [i \in DOMAIN names |-> names[i].s]

\* C13: inserting one record, an absent value is accepted exactly in a column
\* without NotNull, in the primary key, and in a column with a declared
\* default; an absent value in another column panics and no statement is
\* built or sent. The statement lists the present columns alone, in declared
\* order, with their values as its parameters.
C13_AbsentValues ==
    qchain = <<"insert">> =>
        LET cols == qin[1].cols
            row == qin[1].rows[1]
            refused == \E i \in DOMAIN cols :
                          /\ row[i] = 0
                          /\ has_flag(cols[i], "NotNull")
                          /\ ~has_flag(cols[i], "PrimaryKey")
                          /\ ~cols[i].default
            present == SelectSeq([i \in DOMAIN cols |-> i], LAMBDA i : row[i] # 0)
        IN  IF refused
            THEN qpanic /\ qraw = <<>>
            ELSE /\ ~qpanic
                 /\ qraw # <<>>
                 /\ Listed(cols, qraw[1].sql) = [k \in DOMAIN present |-> cols[present[k]].name]
                 /\ ParamValues(qraw[1].params) = [k \in DOMAIN present |-> row[present[k]]]
                 /\ Intended(qraw[1].sql) = ParamValues(qraw[1].params)

C13_Witness ==
    /\ qchain = <<"insert">>
    /\ qin[1].cols = StrictModel
    /\ qin[1].rows[1][1] = 0
    /\ qin[1].rows[1][3] = 0
    /\ qraw # <<>>
    /\ Sql(qraw[1].sql) = <<"INSERT INTO t (a) VALUES (", "?", ")">>

C13_WitnessRefused ==
    /\ qchain = <<"insert">>
    /\ qin[1].cols = StrictModel
    /\ qin[1].rows[1][2] = 0
    /\ qin[1].rows[1][3] # 0
    /\ qpanic

\* the values of the listed columns of the rows, row after row
RECURSIVE ValuesOf(_, _)
ValuesOf(cols, rows) ==
    IF rows = <<>> THEN <<>>
    ELSE LET row == Head(rows)
             present == SelectSeq([i \in DOMAIN cols |-> i], LAMBDA i : row[i] # 0)
         IN  [k \in DOMAIN present |-> row[present[k]]] \o ValuesOf(cols, Tail(rows))

\* two rows of a slice differ in the set of their present columns
Heterogeneous(rows) == \E i, k \in DOMAIN rows : Present(rows[i]) # Present(rows[k])

\* a slice of acceptable records is built or panics as its column sets demand
SliceLaw(cols, rows) ==
    IF Heterogeneous(rows)
    THEN qpanic /\ qraw = <<>>
    ELSE /\ ~qpanic
         /\ qraw # <<>>
         /\ Len(qraw[1].params) = Len(rows) * Len(Listed(cols, qraw[1].sql))
         /\ ParamValues(qraw[1].params) = ValuesOf(cols, rows)

\* C14: inserting an array or a slice, rows with different sets of present
\* columns (a first row without any present column included) panic while the
\* insert is built and no statement is sent; a statement that is built has
\* one parameter per listed column for every row, rows in slice order.
C14_HeterogeneousSlicesPanic ==
    qchain = <<"insert_slice">> =>
        LET cols == qin[1].cols
            rows == qin[1].rows
        IN  (\A i \in DOMAIN rows : into_insertable_ok(cols, rows[i])) => SliceLaw(cols, rows)

\* the same for the slices that do not begin with a row without a present column
C14_ExceptAfterEmptyRows ==
    qchain = <<"insert_slice">> =>
        LET cols == qin[1].cols
            rows == qin[1].rows
        IN  (/\ \A i \in DOMAIN rows : into_insertable_ok(cols, rows[i])
             /\ rows # <<>> => Present(rows[1]) # {})
                => SliceLaw(cols, rows)

\* C15: in every state any sequence of Relation operations reaches, a cached
\* related record is the record the key names: when related is present,
\* related_key is Some(id of related).
C15_CachedRecordHasTheKey ==
    rel.related # <<>> => rel.related_key = <<get_id(rel.related[1])>>

\* fetch has queried the engine and cached the record of key 2, the second
\* row of its table
C15_Witness ==
    /\ rop = "fetch"
    /\ rqueried
    /\ rel.related # <<>>
    /\ rel.related_key = <<2>>
    /\ Len(qtable) = 2

\* a joined parse_from_row has cached the record the join delivered
C15_WitnessJoined ==
    /\ rop = "parse_joined"
    /\ ~qpanic
    /\ rel.related # <<>>

\* the rows of the table a key names
TargetRows(key, table) == {r \in DOMAIN table : <<table[r][1]>> = key}

\* C16: fetch on a Relation that holds only a key k whose target row exists
\* returns and caches a record whose id is k; get and take return that
\* record (take leaves the cache empty), they return the cached record when
\* there is one, and they send a statement to the engine only when there is
\* none.
C16_Hydration ==
    [][ /\ ( /\ rop' \in {"fetch", "get", "take"}
             /\ ~qpanic
             /\ rel.related = <<>>
             /\ TargetRows(rel.related_key, qtable) # {} )
            => /\ ~qpanic'
               /\ rqueried'
               /\ rout' # <<>>
               /\ rel.related_key = <<get_id(rout'[1])>>
               /\ \E r \in TargetRows(rel.related_key, qtable) : rout'[1] = qtable[r]
               /\ rel'.related_key = rel.related_key
               /\ rel'.related = IF rop' = "take" THEN <<>> ELSE rout'
        /\ ( /\ rop' \in {"fetch", "get", "take"}
             /\ ~qpanic
             /\ rel.related # <<>> )
            => /\ ~qpanic'
               /\ ~rqueried'
               /\ rout' = rel.related
               /\ rel'.related = IF rop' = "take" THEN <<>> ELSE rel.related
        /\ ( /\ rop' \in {"get", "take"}
             /\ ~qpanic
             /\ rqueried' )
            => rel.related = <<>>
      ]_vars

\* get returned the cached record without a statement, although the row of
\* its key has been updated since it was fetched
C16_Witness ==
    /\ rop = "get"
    /\ ~rqueried
    /\ ~qpanic
    /\ rout # <<>>
    /\ rout = rel.related
    /\ \E r \in TargetRows(rel.related_key, qtable) : qtable[r] # rout[1]

\* take on a key alone fetched the record and handed it out
C16_WitnessTake ==
    /\ rop = "take"
    /\ rqueried
    /\ ~qpanic
    /\ rout # <<>>
    /\ rel.related = <<>>
    /\ rel.related_key = <<get_id(rout[1])>>

\* a row satisfies the filter the caller composed: and(..) and or(..) of what
\* their two operands say, a comparison as the engine reads its fragment
RECURSIVE Satisfies(_, _, _)
Satisfies(filter, row, table) ==
    CASE filter.kind = "And" ->
            Satisfies(filter.filter0, row, table) /\ Satisfies(filter.filter1, row, table)
      [] filter.kind = "Or" ->
            Satisfies(filter.filter0, row, table) \/ Satisfies(filter.filter1, row, table)
      [] OTHER ->
            LET q == get_query(filter)
            IN  Where(q.sql, q.params, 1, Len(q.sql), row, table)

\* row with every column of the set(...) calls at the value of the last call
\* that names it, and every other column as it was
SetTo(cols, row) ==
    [i \in DOMAIN row |->
        LET calls == {k \in DOMAIN cols : cols[k].name = QueryModel[i].name}
        IN  IF calls = {} THEN row[i]
            ELSE cols[CHOOSE k \in calls : \A j \in calls : j <= k].v]

\* an update chain of set(...) calls and one filter(...) call, in any order,
\* has been executed
UpdateExecuted ==
    /\ qraw # <<>>
    /\ qb # <<>>
    /\ qb[1].kind = "update"
    /\ \A i \in 2..Len(qchain) : qchain[i] \in {"set", "filter"}
    /\ Cardinality({i \in DOMAIN qchain : qchain[i] = "filter"}) = 1
    /\ \E i \in DOMAIN qchain : qchain[i] = "set"

\* the executed update changed the rows that satisfy f, and those alone, to
\* the values set
UpdateScoped ==
    /\ Len(qtable) = Len(QueryTable)
    /\ \A r \in DOMAIN QueryTable :
           qtable[r] = IF Satisfies(qfilter[1], QueryTable[r], QueryTable)
                       THEN SetTo(qb[1].columns, QueryTable[r])
                       ELSE QueryTable[r]

\* an and(..) in the filter has an or(..) as an operand
RECURSIVE OrUnderAnd(_)
OrUnderAnd(filter) ==
    /\ filter.kind \in {"And", "Or"}
    /\ \/ OrUnderAnd(filter.filter0)
       \/ OrUnderAnd(filter.filter1)
       \/ filter.kind = "And" /\ "Or" \in {filter.filter0.kind, filter.filter1.kind}

\* C17: executing update().set(c, v).filter(f), with set before or after
\* filter, sets c to v in exactly the rows that satisfy f, leaves every other
\* row and every other column as it was, and keeps the number of rows.
C17_UpdateScoping == UpdateExecuted => UpdateScoped

\* C17, for the filters in which no and(..) has an or(..) as an operand
C17_UpdateScopingWithoutOrUnderAnd ==
    (UpdateExecuted /\ ~OrUnderAnd(qfilter[1])) => UpdateScoped

\* filter before set: some rows were changed, some were not
C17_Witness ==
    /\ UpdateExecuted
    /\ qchain = <<"update", "filter", "set">>
    /\ ~OrUnderAnd(qfilter[1])
    /\ \E r \in DOMAIN QueryTable : qtable[r] # QueryTable[r]
    /\ \E r \in DOMAIN QueryTable :
           qtable[r] = QueryTable[r] /\ qtable[r] # SetTo(qb[1].columns, QueryTable[r])

\* ref_ returned a filter: its column and id are in qops
RefReturned == qchain = <<"ref_">> /\ ~qpanic

\* the fragment of ref_ is the fragment of column.in_(sub), in text and in
\* parameter values
RefIs(sub) ==
    LET expanded == get_query(in_(qops[1], ModelQuery_to_query(sub)))
    IN  /\ qfrag # <<>>
        /\ Sql(qfrag[1].sql) = Sql(expanded.sql)
        /\ ParamValues(qfrag[1].params) = ParamValues(expanded.params)

RelationCalled ==
    /\ qchain # <<>>
    /\ qchain[Len(qchain)] \in {"ref_", "join_relation"}

\* C19: ref_ and join_relation on a column without a declared relation
\* (title) fail at once: ref_ returns no filter and no fragment, join_relation
\* returns no query, and no statement reaches the engine afterwards; on a
\* column with a relation (author) both return: ref_ a filter with its
\* fragment, join_relation the query with the LEFT JOIN appended.
C19_RelationOnly ==
    /\ qpanic => qraw = <<>>
    /\ (RelationCalled /\ qops[1] = ColTitle) =>
           /\ qpanic
           /\ qchain[Len(qchain)] = "ref_" => qfilter = <<>> /\ qfrag = <<>>
           /\ qchain[Len(qchain)] = "join_relation" => qb = <<>>
    /\ (RelationCalled /\ qops[1] = ColAuthor) =>
           /\ ~qpanic
           /\ qchain[Len(qchain)] = "ref_" => qfilter # <<>> /\ qfrag # <<>>
           /\ qchain[Len(qchain)] = "join_relation" =>
                  /\ qb # <<>>
                  /\ qb[1].query[Len(qb[1].query)].s
                         = " LEFT JOIN t ON t.id = p.author"
                  /\ qb[1].joins # <<>>

\* join_relation on the column without a relation panicked in the middle of
\* a chain
C19_Witness ==
    /\ qpanic
    /\ qchain = <<"select", "limit", "join_relation">>
    /\ qops = <<ColTitle>>
    /\ qb = <<>>

\* ref_ on the column without a relation panicked
C19_WitnessRef ==
    /\ qpanic
    /\ qchain = <<"ref_">>
    /\ qops[1] = ColTitle

\* a select joined on the relation column reached the engine
C19_WitnessJoined ==
    /\ ~qpanic
    /\ qraw # <<>>
    /\ \E i \in DOMAIN qchain : qchain[i] = "join_relation"

\* the statements of replace_table_full for a declared table
RebuildOf(s, table) ==
    \/ s.op \in {"CREATE TABLE", "INSERT SELECT", "RENAME TO"} /\ s.table = TempName(table)
    \/ s.op = "DROP TABLE IF EXISTS" /\ s.table = table /\ table \in DOMAIN declared

\* CREATE TABLE of a declared table the database did not hold when the pass
\* started
CreatesMissing(s) ==
    /\ s.op = "CREATE TABLE"
    /\ s.table \in MissingTables(declared, get_all_tables(db0))

\* C20: within one migrate pass, for every live declared table every DROP
\* COLUMN precedes every ADD COLUMN, both precede the statements of its
\* rebuild, the table is rebuilt at most once, and every CREATE TABLE of a
\* declared but missing table comes after every other statement of the pass.
C20_StatementOrder ==
    /\ \A i \in DOMAIN log : \A j \in DOMAIN log :
           i < j =>
               /\ ~( /\ log[i].op = "ADD COLUMN"
                     /\ log[j].op = "DROP COLUMN"
                     /\ log[i].table = log[j].table )
               /\ ~( /\ log[j].op \in {"DROP COLUMN", "ADD COLUMN"}
                     /\ RebuildOf(log[i], log[j].table) )
               /\ ~( /\ log[i].op = "CREATE TABLE"
                     /\ log[j].op = "CREATE TABLE"
                     /\ log[i].table = log[j].table )
               /\ CreatesMissing(log[i]) => CreatesMissing(log[j])

\* a finished pass that dropped a column of a table, then added one to it,
\* and created a missing table at the end
C20_Witness ==
    /\ pc = "done"
    /\ \E i, j, k \in DOMAIN log :
           /\ i < j /\ j < k
           /\ log[i].op = "DROP COLUMN"
           /\ log[j].op = "ADD COLUMN" /\ log[j].table = log[i].table
           /\ CreatesMissing(log[k])

\* a finished pass that added a column to a table, then rebuilt the table,
\* and created a missing table at the end
C20_WitnessRebuild ==
    /\ pc = "done"
    /\ \E i, j, k \in DOMAIN log :
           /\ i < j /\ j < k
           /\ log[i].op = "ADD COLUMN"
           /\ log[j].op = "RENAME TO" /\ RebuildOf(log[j], log[i].table)
           /\ CreatesMissing(log[k])

\* the leaves of a composed filter, from left to right
RECURSIVE LeavesOf(_)
LeavesOf(filter) ==
    IF filter.kind \in {"And", "Or"}
    THEN LeavesOf(filter.filter0) \o LeavesOf(filter.filter1)
    ELSE <<filter>>

\* the operators of a composed filter, from left to right
RECURSIVE OpsOf(_)
OpsOf(filter) ==
    IF filter.kind \in {"And", "Or"}
    THEN OpsOf(filter.filter0) \o <<filter.kind>> \o OpsOf(filter.filter1)
    ELSE <<>>

Combine(op, l, r) == IF op = "And" THEN and(l, r) ELSE or(l, r)

\* ((l1 op1 l2) op2 l3) ..
RECURSIVE LeftNested(_, _)
LeftNested(leaves, ops) ==
    IF ops = <<>> THEN leaves[1]
    ELSE Combine(ops[Len(ops)],
                 LeftNested(SubSeq(leaves, 1, Len(leaves) - 1), SubSeq(ops, 1, Len(ops) - 1)),
                 leaves[Len(leaves)])

\* l1 op1 (l2 op2 (l3 ..))
RECURSIVE RightNested(_, _)
RightNested(leaves, ops) ==
    IF ops = <<>> THEN leaves[1]
    ELSE Combine(ops[1], leaves[1], RightNested(Tail(leaves), Tail(ops)))

\* the texts and the parameter values of two fragments are the same
SameFragment(q, r) ==
    /\ Sql(q.sql) = Sql(r.sql)
    /\ ParamValues(q.params) = ParamValues(r.params)

\* the leaves' fragments with " AND " / " OR " between them, nothing else
RECURSIVE Flat(_, _)
Flat(leaves, ops) ==
    IF ops = <<>> THEN get_query(leaves[1])
    ELSE LET rest == Flat(Tail(leaves), Tail(ops))
             first == get_query(leaves[1])
         IN  RawQuery(first.sql \o Lit(IF ops[1] = "And" THEN " AND " ELSE " OR ") \o rest.sql,
                      first.params \o rest.params)

\* C21: and(..) / or(..) introduce no parentheses and the nesting of the
\* combinators does not show: the fragment of a filter tree is the fragments
\* of its leaves from left to right with its operators between them, the
\* same text and parameters as the left-nested and the right-nested tree over
\* those leaves and operators give.
C21_NestingDoesNotShow ==
    (qchain = <<"get_query">> /\ qfilter[1] \in Trees) =>
        LET leaves == LeavesOf(qfilter[1])
            ops == OpsOf(qfilter[1])
        IN  /\ SameFragment(qfrag[1], Flat(leaves, ops))
            /\ SameFragment(qfrag[1], get_query(LeftNested(leaves, ops)))
            /\ SameFragment(qfrag[1], get_query(RightNested(leaves, ops)))
            /\ \A i \in DOMAIN qfrag[1].sql : qfrag[1].sql[i].s \notin {"(", ")"}
                   \/ \E l \in DOMAIN leaves : leaves[l].kind = "InQueryFilter"

\* (a OR b) AND c was compiled: its text is that of a OR (b AND c)
C21_Witness ==
    /\ qchain = <<"get_query">>
    /\ qfilter[1] = and(or(eq(ColA, 1), is_null(ColA)), in_(ColId, Vec_to_query(<<2, 1>>)))
    /\ SameFragment(qfrag[1],
           get_query(or(eq(ColA, 1), and(is_null(ColA), in_(ColId, Vec_to_query(<<2, 1>>))))))

\* "?, ?, .." for the values, as the claim writes it
RECURSIVE Marks(_)
Marks(values) ==
    IF values = <<>> THEN <<>>
    ELSE IF Len(values) = 1 THEN Placeholder(values[1])
    ELSE Placeholder(values[1]) \o Lit(", ") \o Marks(Tail(values))

\* the fragment the claim gives in_ / not_in of qops
MemberExpected ==
    LET column == qops[1]
        source == qops[3]
        word == IF qops[2] THEN " NOT IN " ELSE " IN "
        inner == IF source.kind = "list"
                 THEN RawQuery(Marks(source.values),
                               [i \in DOMAIN source.values |-> Param(source.values[i])])
                 ELSE ModelQuery_get_query(source.query)
    IN  RawQuery(Lit(column.table_name) \o Lit(".") \o Lit(column.name) \o Lit(word)
                     \o Lit("(") \o inner.sql \o Lit(")"),
                 inner.params)

\* C22: in_ / not_in over a list of n values compiles to
\* "<table>.<column> [NOT ]IN (?, .., ?)" with n placeholders and the n values
\* as parameters in list order; over a select to "<table>.<column> [NOT ]IN
\* (<nested SQL>)" with the nested query's parameters in its own order; in a
\* composed filter these parameters stand between those of the fragment to
\* the left and those of the fragment to the right.
C22_MembershipFragments ==
    qchain = <<"in_">> =>
        LET left == IF qops[4] = <<>> THEN RawQuery(<<>>, <<>>)
                    ELSE LET q == get_query(qops[4][1])
                         IN  RawQuery(q.sql \o Lit(" AND "), q.params)
            right == IF qops[5] = <<>> THEN RawQuery(<<>>, <<>>)
                     ELSE LET q == get_query(qops[5][1])
                          IN  RawQuery(Lit(" OR ") \o q.sql, q.params)
            member == MemberExpected
        IN  /\ Sql(qfrag[1].sql) = Sql(left.sql \o member.sql \o right.sql)
            /\ ParamValues(qfrag[1].params)
                   = ParamValues(left.params \o member.params \o right.params)
            /\ qops[3].kind = "list" =>
                   /\ Len(member.params) = Len(qops[3].values)
                   /\ Cardinality({i \in DOMAIN member.sql : member.sql[i].s = "?"})
                          = Len(qops[3].values)
                   /\ ParamValues(member.params) = qops[3].values

\* not_in over the list <<2, 1, 1>> between a comparison on the left and one
\* on the right
C22_Witness ==
    /\ qchain = <<"in_">>
    /\ qops = <<ColId, TRUE, [kind |-> "list", values |-> <<2, 1, 1>>],
                <<eq(ColA, 1)>>, <<eq(ColB, 2)>>>>
    /\ ParamValues(qfrag[1].params) = <<1, 2, 1, 1, 2>>

\* in_ over the select with a filter and a limit, between two comparisons
C22_WitnessQuery ==
    /\ qchain = <<"in_">>
    /\ ~qops[2]
    /\ qops[3].kind = "query"
    /\ qops[4] # <<>> /\ qops[5] # <<>>
    /\ ParamValues(qfrag[1].params) = <<1, 2, 1, 2>>

\* the flags of a descriptor as a set
FlagSet(col) == {col.flags[i] : i \in DOMAIN col.flags}

\* C23: two descriptors compare equal if and only if their names are equal,
\* their types are equal and their flags are equal as sets, whatever the order
\* the flags are listed in; default and relation do not count.
C23_EqualityOnFlagSets ==
    rop = "eq" =>
        (rout[1] <=> /\ qops[1].name = qops[2].name
                     /\ qops[1].ty = qops[2].ty
                     /\ FlagSet(qops[1]) = FlagSet(qops[2]))

\* C23, with the flags compared as lists: equal if and only if the names, the
\* types and the flag lists are equal; default and relation do not count.
C23_EqualityOnFlagLists ==
    rop = "eq" =>
        (rout[1] <=> /\ qops[1].name = qops[2].name
                     /\ qops[1].ty = qops[2].ty
                     /\ Len(qops[1].flags) = Len(qops[2].flags)
                     /\ \A i \in DOMAIN qops[1].flags : qops[1].flags[i] = qops[2].flags[i])

\* two descriptors that differ in default and in relation alone compared equal
C23_Witness ==
    /\ rop = "eq"
    /\ rout = <<TRUE>>
    /\ qops[1].default # qops[2].default
    /\ qops[1].relation # qops[2].relation
    /\ Len(qops[1].flags) = 2

\* the last call on record that registered a model with table name t
LastRegistration(t) ==
    CHOOSE i \in DOMAIN registered :
        /\ registered[i].table = t
        /\ \A j \in DOMAIN registered : registered[j].table = t => j <= i

\* C24: at every moment, before, during and after migrate, the registry holds
\* one entry for each table name that was registered and no other, and the
\* entry of a name is the column list of the last model registered under
\* that name.
C24_RegistryHoldsLastRegistration ==
    /\ DOMAIN declared = {registered[i].table : i \in DOMAIN registered}
    /\ \A t \in DOMAIN declared :
           declared[t] = registered[LastRegistration(t)].columns

\* two models with the table name t and different columns were registered,
\* and a migrate completed
C24_Witness ==
    /\ Len(registered) = 2
    /\ registered[1].table = "t"
    /\ registered[2].table = "t"
    /\ registered[1].columns # registered[2].columns
    /\ declared["t"] = registered[2].columns
    /\ pc = "done"

\* the record fetch() loads for a key: the row of the related table with
\* that id
Fetched(key, table) == {table[r] : r \in {x \in DOMAIN table : table[x][1] = key}}

\* the relation parsed from a row holds the row's key, and, when it was
\* joined, the record fetch() would load for that key, and no record
\* otherwise
Hydrated(parsed, key, table, joined) ==
    /\ parsed.related_key = <<key>>
    /\ IF joined THEN parsed.related # <<>> /\ parsed.related[1] \in Fetched(key, table)
       ELSE parsed.related = <<>>

PostParsed == rop = "exec" /\ rout # <<>>

\* C25: a select that joined relations in any order parses every row so that
\* each joined relation caches the record fetch() would load for the row's
\* key, and each relation that was not joined holds the bare key.
C25_JoinedHydration ==
    PostParsed =>
        /\ Hydrated(rout[1].author, qops[1][2], qtable, "author" \in Range(qb[1].joins))
        /\ Hydrated(rout[1].editor, qops[1][3], EditorRows, "editor" \in Range(qb[1].joins))

\* the same for the selects whose join_relation calls follow the order of
\* the relation fields
C25_JoinedHydrationInFieldOrder ==
    (PostParsed /\ qb[1].joins # <<"editor", "author">>) =>
        /\ Hydrated(rout[1].author, qops[1][2], qtable, "author" \in Range(qb[1].joins))
        /\ Hydrated(rout[1].editor, qops[1][3], EditorRows, "editor" \in Range(qb[1].joins))

\* a row parsed after both relations were joined, the editor first
C25_Witness ==
    /\ PostParsed
    /\ qb[1].joins = <<"editor", "author">>

\* a row parsed after both relations were joined in field order, and one
\* parsed after only the second relation was joined
C25_WitnessInOrder ==
    /\ PostParsed
    /\ qb[1].joins = <<"author", "editor">>
    /\ rout[1].author.related = <<QueryTable[qops[1][2]]>>

C25_WitnessSecondOnly ==
    /\ PostParsed
    /\ qb[1].joins = <<"editor">>
    /\ rout[1].editor.related # <<>>
    /\ rout[1].author.related = <<>>

\* the names of a column list, separated by ", "
Names(cols) == Join([i \in DOMAIN cols |-> cols[i].name], ", ")

\* this step is a columns(..) call on a select
ColumnsStep == qb # <<>> /\ qchain' = Append(qchain, "columns")

\* a columns(..) call was made before on this builder
Projected == "columns" \in Range(qchain)

\* what columns(cols) is to leave of the query: the text with the second
\* piece, the * of "SELECT * FROM <table>", replaced by the names on the
\* first call, and the text as it is on a later call
ProjectedText(query, cols) ==
    IF Projected THEN Sql(query)
    ELSE Sql(<<query[1]>> \o Lit(Names(cols)) \o SubSeq(query, 3, Len(query)))

ColumnsStepReplacesBaseStar ==
    /\ Sql(qb'[1].query) = ProjectedText(qb[1].query, qops'[1])
    /\ ParamValues(qb'[1].params) = ParamValues(qb[1].params)
    /\ qb'[1].joins = qb[1].joins
    /\ qb'[1].kind = qb[1].kind
    /\ qb'[1].table_name = qb[1].table_name

\* C26: a columns(cs) call on a select, wherever in the chain, replaces the
\* * of SELECT * FROM <table> by the names of cs when it is the first such
\* call and replaces nothing when it is a later one, and leaves the
\* parameters, the joins and every appended clause as they were.
C26_ColumnsReplacesBaseStarOnce ==
    [][ColumnsStep => ColumnsStepReplacesBaseStar]_vars

\* a filter of the chain holds a select with a * of its own
StarInFilter == \E i \in 3..Len(qb[1].query) : qb[1].query[i].s = "*"

\* the same for the chains in which no filter holds a select with a * of
\* its own when columns is called again
C26_ColumnsOnceWithoutStarInFilter ==
    [][(ColumnsStep /\ ~(Projected /\ StarInFilter)) => ColumnsStepReplacesBaseStar]_vars

\* columns was called a second time after a filter with K::select() and a
\* join
C26_Witness ==
    /\ qb # <<>>
    /\ Len(qchain) >= 4
    /\ qchain[Len(qchain)] = "columns"
    /\ "columns" \in Range(SubSeq(qchain, 1, Len(qchain) - 1))
    /\ qfilter = <<in_(ColAuthor, ModelQuery_to_query(ModelQuery_select(KeyTable)))>>

\* columns was called once, after a join, a filter with a parameter and a
\* limit
C26_WitnessFirstCall ==
    /\ qb # <<>>
    /\ qchain = <<"select", "join_relation", "filter", "columns">>
    /\ qb[1].joins = <<"author">>
    /\ ParamValues(qb[1].params) = <<1>>
    /\ Sql(qb[1].query) = <<"SELECT title, author FROM p LEFT JOIN t ON t.id = p.author WHERE p.title = ", "?">>

\* the column names of the live table T, and of its declaration, in order
LiveOrder(d, T) == [i \in DOMAIN GetTable(d, T).cols |-> GetTable(d, T).cols[i].name]

DeclaredOrder(T) == [i \in DOMAIN declared[T] |-> declared[T][i].name]

\* the current pass added a column to T
AddedTo(T) == \E i \in DOMAIN log : log[i].op = "ADD COLUMN" /\ log[i].table = T

\* C27: after a migrate that completed, every declared table holds its
\* columns in the order of the declaration, so that field i of a record is
\* read from the column with the field's name.
C27_LiveOrderIsDeclaredOrder ==
    pc = "done" =>
        \A T \in DOMAIN declared :
            HasTable(db, T) => LiveOrder(db, T) = DeclaredOrder(T)

\* the same for the first pass and the tables it added no column to, or
\* rebuilt after adding
C27_LiveOrderWithoutAdd ==
    (pc = "done" /\ pass = 1) =>
        \A T \in DOMAIN declared :
            (HasTable(db, T)
                /\ (AddedTo(T) => \E i \in DOMAIN log :
                                      log[i].op = "RENAME TO" /\ log[i].table = TempName(T)))
            => LiveOrder(db, T) = DeclaredOrder(T)

\* a pass that dropped a column of t and added one completed
C27_Witness ==
    /\ pc = "done"
    /\ HasTable(db, "t")
    /\ "t" \in DOMAIN declared
    /\ AddedTo("t")
    /\ \E i \in DOMAIN log : log[i].op = "DROP COLUMN" /\ log[i].table = "t"

\* a pass that added to t(id, b) the declared column a completed without a
\* rebuild
C27_WitnessOutOfOrder ==
    /\ pc = "done"
    /\ "t" \in DOMAIN declared
    /\ HasTable(db, "t")
    /\ DeclaredOrder("t") = <<"id", "a", "b">>
    /\ LiveOrder(db, "t") = <<"id", "b", "a">>

\* C28: when replace_table_full is entered for a table, the live table has
\* the declared column names and as many columns as the declaration, and
\* when the copy is issued the table it copies into has as many columns as
\* the table it copies from.
C28_RebuildStartsOnDeclaredWidth ==
    /\ pc = "rebuild_create" =>
           /\ HasTable(db, Table)
           /\ Len(GetTable(db, Table).cols) = Len(declared[Table])
           /\ ColumnNames(GetTable(db, Table).cols) = ColumnNames(declared[Table])
    /\ pc = "rebuild_copy" =>
           /\ HasTable(db, Table)
           /\ HasTable(db, TempName(Table))
           /\ Len(GetTable(db, TempName(Table)).cols) = Len(GetTable(db, Table).cols)

\* the copy of a rebuild is about to be issued in a pass that added a
\* column to the table, or dropped one
C28_Witness ==
    /\ pc = "rebuild_copy"
    /\ \E j \in DOMAIN log : log[j].op = "ADD COLUMN" /\ log[j].table = Table

C28_WitnessDrop ==
    /\ pc = "rebuild_copy"
    /\ \E i \in DOMAIN log : log[i].op = "DROP COLUMN" /\ log[i].table = Table

\* every row of the table old is in the table new, with the same value under
\* every column name the two tables share
KeptByName(old, new) ==
    /\ Len(new.rows) = Len(old.rows)
    /\ \A r \in DOMAIN old.rows :
           \A n \in ColumnNames(old.cols) \cap ColumnNames(new.cols) :
               new.rows[r][ColumnIndex(new, n)] = old.rows[r][ColumnIndex(old, n)]

\* the copy of replace_table_full was executed: the old table and the new
\* one are both live
Copied == pc = "rebuild_drop" /\ HasTable(db, Table) /\ HasTable(db, TempName(Table))

\* C29: the copy of a full rebuild gives every row the value it had under
\* every column name that the table keeps, whatever the order of the live
\* columns was.
C29_RebuildKeepsValuesByName ==
    Copied => KeptByName(GetTable(db, Table), GetTable(db, TempName(Table)))

\* the same for the rebuilds that start on a table whose columns are in the
\* declared order
C29_RebuildKeepsValuesInDeclaredOrder ==
    (Copied /\ LiveOrder(db, Table) = DeclaredOrder(Table)) =>
        KeptByName(GetTable(db, Table), GetTable(db, TempName(Table)))

\* a table with a row was copied after the pass added a column in front of
\* a live one
C29_Witness ==
    /\ Copied
    /\ GetTable(db, Table).rows # <<>>
    /\ LiveOrder(db, Table) # DeclaredOrder(Table)
    /\ \E j \in DOMAIN log : log[j].op = "ADD COLUMN" /\ log[j].table = Table

\* a table with a row was copied in declared order
C29_WitnessInOrder ==
    /\ Copied
    /\ GetTable(db, Table).rows # <<>>
    /\ Len(declared[Table]) = 3
    /\ LiveOrder(db, Table) = DeclaredOrder(Table)

\* C30: get, take, try_get, try_take, fetch, fetch_once, get_id and clone
\* leave the key of the Relation as it is; take and try_take leave it
\* without a cached record, clone gives a Relation without one, fetch on a
\* Relation that holds a record leaves it unchanged, and try_get, get_id and
\* fetch_once change nothing.
C30_KeyNeverChanges ==
    [][ /\ rop' \in {"get", "take", "try_get", "try_take", "fetch", "fetch_once",
                     "get_id", "clone"}
           => rel'.related_key = rel.related_key
        /\ rop' \in {"take", "try_take", "clone"} => rel'.related = <<>>
        /\ (rop' \in {"fetch", "get"} /\ rel.related # <<>>) => rel' = rel
        /\ (rop' \in {"fetch", "get"} /\ rel.related = <<>> /\ rel'.related # <<>>)
              => get_id(rel'.related[1]) = rel.related_key[1]
        /\ rop' \in {"try_get", "fetch_once", "get_id"} => rel' = rel
      ]_vars

\* take handed out a record and left the key without a cache
C30_Witness ==
    /\ rop = "take"
    /\ rout # <<>>
    /\ rel.related = <<>>
    /\ rel.related_key = <<get_id(rout[1])>>

\* try_take handed out the cached record; fetch on a Relation that held one
C30_WitnessTryTake ==
    /\ rop = "try_take"
    /\ rout # <<>>
    /\ rel.related = <<>>
    /\ rel.related_key # <<>>

C30_WitnessFetchCached ==
    /\ rop = "fetch"
    /\ ~rqueried
    /\ rel.related # <<>>

====
